---- MODULE Spec2Model ----
(***************************************************************************)
(* Print-stream execution and power-loss recovery of klippy's virtual      *)
(* sdcard (klippy/extras/virtual_sdcard.py).                               *)
(*                                                                         *)
(* Fifteen specifications share this module:                               *)
(*   SpecStore   one checkpoint document written through                   *)
(*               save_environment_data and the background file writer      *)
(*   SpecDamaged SpecStore started on a document that may be unparseable   *)
(*   SpecSelect  the ring selector pl_find_latest_move_env                 *)
(*   Spec        the dispatcher (work_handler), the move-checkpoint ring,  *)
(*               the hardware progress record, process kill, start-up      *)
(*               validation and restore_print                              *)
(*   SpecReplay  two replays (parse_power_loss_move_env with               *)
(*               GCodeStateTracker) run side by side                       *)
(*   SpecLive    a live interpreter that checkpoints its state, next to    *)
(*               the replay that starts from that checkpoint               *)
(*   SpecCmd     Spec with the operator commands SDCARD_PRINT_PL_RESTORE   *)
(*               and SDCARD_PRINT_PL_CLEAR_ENV                             *)
(*   SpecDisp    the dispatcher with its callers: do_pause, do_cancel,     *)
(*               in-stream M25 / CANCEL_PRINT / seeks, and every exit of   *)
(*               work_handler                                              *)
(*   SpecSeek    the read loop of work_handler over the bytes of the job   *)
(*               file, with seeks requested by the executed line           *)
(*   SpecOracle  the hardware progress oracle                              *)
(*               (_update_mcu_flash_valid_line)                            *)
(*   SpecJobWrites  the documents written at the job start next to the     *)
(*               background file writer                                    *)
(*   SpecRing    the slot files of the move-checkpoint ring as             *)
(*               dictionaries                                              *)
(*   SpecFlow    the E axis of the replay tracker under M221               *)
(*   SpecOrch    restore_print statement by statement next to the work     *)
(*               timer                                                     *)
(*   SpecTrack   GCodeStateTracker on the text of the replayed lines:       *)
(*               _parse_gcode_line, G92 and the motion commands            *)
(* A byte offset is counted in lines: every line of the job file is one    *)
(* unit long, so the offset at which file line k (1-based) begins is k-1.  *)
(***************************************************************************)
EXTENDS Integers, Sequences, FiniteSets, TLC

\* ------------------------------------------------------------------------
\* Bounds of the model
\* ------------------------------------------------------------------------
\* number of save_environment_data calls explored per behaviour
MaxSaves == 3
\* largest value written under a key of a checkpoint document
MaxVal == 2
\* number of lines of the job file
FileLen == 4
\* number of job-file lines after the checkpoint's own line in a replay
MaxReplay == 3
\* process kills / power losses explored per behaviour
MaxCrashes == 2
\* instruction errors explored per behaviour
MaxErrors == 1
\* SDCARD_PRINT_FILE commands explored per behaviour
MaxPrints == 1
\* job starts, instruction errors and kills explored per behaviour, together
MaxEvents == 3
\* _PL_SAVE_VARIABLE start_save_line (default 5), scaled down
pl_start_save_line == 2
\* _PL_SAVE_VARIABLE save_line_interval (default 1000), scaled down
pl_save_line_interval == 2

\* ------------------------------------------------------------------------
\* Values shared by the specifications
\* ------------------------------------------------------------------------
\* 0xFFFFFFFF: "no line" / "no position" / "no slot"
NONE == -1

\* self.max_file_count (ring size N), scaled down from 50
max_file_count == 3
SlotIds == 0 .. (max_file_count - 1)

\* a ring slot file: absent, unparseable, or a move-checkpoint record
AbsentSlot == [st |-> "absent", file_pos |-> 0, line_count |-> 0, line |-> "-"]
CorruptSlot == [st |-> "corrupt", file_pos |-> 0, line_count |-> 0, line |-> "-"]
MoveRecord(fp, lc, ln) == [st |-> "ok", file_pos |-> fp, line_count |-> lc, line |-> ln]

VARIABLES
    \* --- checkpoint store (one named document) ---
    disk_doc,        \* the target path: [st, kv]
    disk_tmp,        \* the path + '.tmp'
    bg_queue,        \* writes handed to the background writer, oldest first
    bg_state,        \* position of the background writer in its current write
    bg_cur,          \* the write the background writer is performing
    caller_blocked,  \* the reactor turn is waiting in a synchronous write
    proc_alive,      \* the process is running
    killed_ever,     \* history: some kill happened
    issued_kv,       \* history: per key, the value most recently written
    handed,          \* history: documents handed to the writer (and the first)
    n_saves,         \* history: number of save_environment_data calls
    \* --- ring selector ---
    ring,            \* slot index -> slot file
    line_cnt,        \* the line the selector is asked for
    find_result,     \* what pl_find_latest_move_env returned
    \* --- the job file and the VirtualSD object ---
    job,                      \* the job file: line number -> kind of line
    current_file,             \* a file is open (current_file is not None)
    file_position,            \* offset of the next line to dispatch
    next_file_position,
    lines,                    \* the dispatcher's line counter
    current_line_gcode,       \* the line last executed successfully
    work_timer,               \* work_timer is not None
    wh,                       \* position of work_handler
    must_pause_work,
    cmd_from_sd,
    current_file_index,       \* ring slot of the next dispatcher write
    pl_next_save_line,
    pl_notify_start_line,
    pl_mcu_flash_resume_line,
    pl_env_valid,
    \* --- collaborators ---
    print_stats_state,        \* print_stats.state
    main_state,               \* machine_state_manager main_state
    homed,                    \* x, y and z are homed
    in_shutdown_state,        \* printer.is_shutdown()
    booted,                   \* the start-up validation has run
    rs,                       \* position of restore_print
    env,                      \* what parse_power_loss_move_env returned
    \* --- disk ---
    file_env,                 \* pl_print_file_env.json
    aux_docs,                 \* the other checkpoint documents exist
    archive,                  \* pl_print_env_info.tar.gz
    \* --- hardware ---
    mcu,                      \* live state of the power_loss_check peripherals
    flash,                    \* their record in flash, read at start-up
    \* --- history ---
    exec_pos,                 \* offset of the line dispatched last
    stopped_at,               \* offset of the line whose error ended the stream
    n_crashes, n_errors, n_prints,
    ring_writes,              \* line_count of the last two ring writes of the job
    spliced,                  \* what the last successful restore_print handed over
    last_abort,               \* how restore_print last aborted
    killed_in,                \* where restore_print was when the process died
    boot_verdict,             \* verdict of the last start-up validation
    \* --- two replays side by side ---
    replay_in,                \* the persisted inputs and each run's live state
    run,                      \* run id -> state of that parse_power_loss_move_env
    \* --- the live interpreter next to its replay ---
    lv,                       \* job text, live state, documents, replay result
    \* --- operator commands ---
    cmd_status,               \* outcome of the last recovery command
    \* --- the dispatcher and its callers ---
    print_start_time,         \* print_stats.print_start_time is not None
    sd_paused,                \* pause_resume.sd_paused
    caller,                   \* a command waiting in do_pause
    pause_ret,                \* history: what the last return of do_pause found
    wh_exit,                  \* history: how work_handler last returned
    cancel_done,              \* history: do_cancel has run on this loaded job
    err_log,                  \* history: the instruction error reported last
    \* --- the read loop of work_handler over the bytes of the file ---
    rd,                       \* file pointer, buffered lines, offsets
    \* --- the hardware progress oracle ---
    orc,                      \* flash records of the peripherals, oracle result
    \* --- the dispatcher's writes at job start next to the store ---
    js,                       \* line counter, the data written at job start
    \* --- the slot files of the move-checkpoint ring as dictionaries ---
    rg,                       \* slot files, index, schedule, the last write
    \* --- the E axis of the replay tracker under flow-factor changes ---
    flow,                     \* base and last E, extrude_factor, the last line
    \* --- restore_print step by step next to the work timer ---
    orch,                     \* position in restore_print, timer, what was touched
    \* --- GCodeStateTracker on the text of the replayed lines ---
    trk                       \* the text, the tracker before and after the last line

store_vars == <<disk_doc, disk_tmp, bg_queue, bg_state, bg_cur, caller_blocked,
                proc_alive, killed_ever, issued_kv, handed, n_saves>>
select_vars == <<ring, line_cnt, find_result>>
sd_vars == <<job, current_file, file_position, next_file_position, lines,
             current_line_gcode, work_timer, wh, must_pause_work, cmd_from_sd,
             current_file_index, pl_next_save_line, pl_notify_start_line,
             pl_mcu_flash_resume_line, pl_env_valid>>
sd_vars_but_wh == <<job, current_file, file_position, next_file_position, lines,
                    current_line_gcode, work_timer, must_pause_work, cmd_from_sd,
                    current_file_index, pl_next_save_line, pl_notify_start_line,
                    pl_mcu_flash_resume_line, pl_env_valid>>
env_vars == <<print_stats_state, main_state, homed, in_shutdown_state, booted, rs, env>>
disk_vars == <<file_env, aux_docs, archive>>
hw_vars == <<mcu, flash>>
hist_vars == <<exec_pos, stopped_at, n_crashes, n_errors, n_prints, ring_writes, spliced,
               last_abort, killed_in, boot_verdict>>
job_vars == <<sd_vars, env_vars, disk_vars, hw_vars, hist_vars>>
replay_vars == <<replay_in, run>>
live_vars == <<lv>>
cmd_vars == <<cmd_status>>
disp_vars == <<print_start_time, sd_paused, caller, pause_ret, wh_exit, cancel_done,
               err_log>>
late_vars == <<rd, orc, js, rg, flow, orch, trk>>
more_vars == <<live_vars, cmd_vars, disp_vars, late_vars>>
vars == <<store_vars, select_vars, job_vars, replay_vars, more_vars>>

\* ========================================================================
\* Checkpoint store
\* ========================================================================
\* keys of the temperature document (heaters.py writes one key per heater)
Keys == {"extruder", "heater_bed"}
Vals == 1 .. MaxVal
\* a JSON object over Keys: 0 stands for "key not present"
KV == [Keys -> {0} \cup Vals]
EmptyKV == [k \in Keys |-> 0]

AbsentFile == [st |-> "absent", kv |-> EmptyKV]
PartialFile == [st |-> "partial", kv |-> EmptyKV]
WholeFile(kv) == [st |-> "whole", kv |-> kv]

\* dict.update: keys of data replace those of existing
DictUpdate(existing, data) ==
    [k \in Keys |-> IF data[k] # 0 THEN data[k] ELSE existing[k]]

\* json.load of a checkpoint document by a reader (get_pl_print_*_env):
\* a missing or unparseable file reads as None
NoDoc == [ok |-> FALSE, kv |-> EmptyKV]
ReadDoc(f) == IF f.st = "whole" THEN [ok |-> TRUE, kv |-> f.kv] ELSE NoDoc

\* the safe_write default of save_environment_data, negated
UnsafeWriteDefault == FALSE
\* safe_write=True in the signature of save_environment_data
SafeWriteDefault == TRUE

StoreIdle == [kv |-> EmptyKV, sync |-> FALSE, safe |-> TRUE]

StoreStart ==
    /\ disk_doc = AbsentFile
    /\ disk_tmp = AbsentFile
    /\ bg_queue = <<>>
    /\ bg_state = "idle"
    /\ bg_cur = StoreIdle
    /\ caller_blocked = FALSE
    /\ proc_alive = TRUE
    /\ killed_ever = FALSE
    /\ issued_kv = EmptyKV
    /\ handed = {}
    /\ n_saves = 0

\* save_environment_data(file_path, data_dict, sync): read the existing
\* document from disk, merge, serialize, hand to queuefile
save_environment_data(data, sync) ==
    /\ proc_alive /\ ~caller_blocked
    /\ n_saves < MaxSaves
    /\ data # EmptyKV
    /\ n_saves' = n_saves + 1
    /\ IF disk_doc.st = "partial"
       THEN \* json.load raised: return False, nothing written
            UNCHANGED <<bg_queue, caller_blocked, issued_kv, handed>>
       ELSE LET existing_data == IF disk_doc.st = "whole" THEN disk_doc.kv
                                 ELSE EmptyKV
                json_content == DictUpdate(existing_data, data)
            IN /\ bg_queue' = Append(bg_queue, [kv |-> json_content,
                                                sync |-> sync,
                                                safe |-> SafeWriteDefault])
               /\ caller_blocked' = sync
               /\ issued_kv' = DictUpdate(issued_kv, data)
               /\ handed' = handed \cup {json_content}
    /\ UNCHANGED <<disk_doc, disk_tmp, bg_state, bg_cur, proc_alive, killed_ever>>

\* record_pl_print_temperature_env({heater: temp}) from heaters.py:
\* one key per call, asynchronous
RecordTemperature ==
    \E k \in Keys, v \in Vals :
        save_environment_data([j \in Keys |-> IF j = k THEN v ELSE 0], FALSE)

\* a synchronous save of the whole document (sync=True)
RecordTemperatureSync ==
    \E k \in Keys, v \in Vals :
        save_environment_data([j \in Keys |-> IF j = k THEN v ELSE 0], TRUE)

\* the background writer takes the oldest write and opens its output:
\* the temporary path for a safe write, the target itself otherwise
BgTake ==
    /\ proc_alive /\ bg_state = "idle" /\ bg_queue # <<>>
    /\ bg_cur' = Head(bg_queue)
    /\ bg_queue' = Tail(bg_queue)
    /\ IF Head(bg_queue).safe
       THEN /\ disk_tmp' = PartialFile
            /\ bg_state' = "tmp_open"
            /\ UNCHANGED disk_doc
       ELSE /\ disk_doc' = PartialFile
            /\ bg_state' = "target_open"
            /\ UNCHANGED disk_tmp
    /\ UNCHANGED <<caller_blocked, proc_alive, killed_ever, issued_kv, handed, n_saves>>

\* the content is written out (and flushed)
BgWrite ==
    /\ proc_alive /\ bg_state \in {"tmp_open", "target_open"}
    /\ IF bg_state = "tmp_open"
       THEN /\ disk_tmp' = WholeFile(bg_cur.kv)
            /\ bg_state' = "tmp_written"
            /\ UNCHANGED <<disk_doc, caller_blocked>>
       ELSE /\ disk_doc' = WholeFile(bg_cur.kv)
            /\ bg_state' = "idle"
            /\ caller_blocked' = (caller_blocked /\ bg_queue # <<>>)
            /\ UNCHANGED disk_tmp
    /\ UNCHANGED <<bg_queue, bg_cur, proc_alive, killed_ever, issued_kv, handed, n_saves>>

\* the temporary file is renamed over the target
BgRename ==
    /\ proc_alive /\ bg_state = "tmp_written"
    /\ disk_doc' = disk_tmp
    /\ disk_tmp' = AbsentFile
    /\ bg_state' = "idle"
    /\ caller_blocked' = (caller_blocked /\ bg_queue # <<>>)
    /\ UNCHANGED <<bg_queue, bg_cur, proc_alive, killed_ever, issued_kv, handed, n_saves>>

\* the process is killed: memory (the queue, the writer's position) is lost,
\* the files stay as they are
StoreKill ==
    /\ proc_alive
    /\ proc_alive' = FALSE
    /\ killed_ever' = TRUE
    /\ bg_queue' = <<>>
    /\ bg_state' = "idle"
    /\ bg_cur' = StoreIdle
    /\ caller_blocked' = FALSE
    /\ UNCHANGED <<disk_doc, disk_tmp, issued_kv, handed, n_saves>>

\* klippy starts again (queuefile.setup_bg_file_operations)
StoreRestart ==
    /\ ~proc_alive
    /\ proc_alive' = TRUE
    /\ UNCHANGED <<disk_doc, disk_tmp, bg_queue, bg_state, bg_cur, caller_blocked,
                   killed_ever, issued_kv, handed, n_saves>>

NextStore ==
    \/ (RecordTemperature /\ UNCHANGED <<select_vars, job_vars, replay_vars, more_vars>>)
    \/ (RecordTemperatureSync /\ UNCHANGED <<select_vars, job_vars, replay_vars, more_vars>>)
    \/ (BgTake /\ UNCHANGED <<select_vars, job_vars, replay_vars, more_vars>>)
    \/ (BgWrite /\ UNCHANGED <<select_vars, job_vars, replay_vars, more_vars>>)
    \/ (BgRename /\ UNCHANGED <<select_vars, job_vars, replay_vars, more_vars>>)
    \/ (StoreKill /\ UNCHANGED <<select_vars, job_vars, replay_vars, more_vars>>)
    \/ (StoreRestart /\ UNCHANGED <<select_vars, job_vars, replay_vars, more_vars>>)

\* ========================================================================
\* Ring selector
\* ========================================================================
\* the lines of the examples: hardware line 2500, slots at 5, 1005, 2005,
\* 3000 and 4000
SelectLines == {0, 5, 1005, 2005, 2500, 3000, 4000}
SelectSlots == {AbsentSlot, CorruptSlot} \cup
               {MoveRecord(0, c, "G1") : c \in SelectLines \ {0}}

NotFound == [index |-> NONE, data |-> AbsentSlot]

\* "if diff >= 0 and diff < min_diff" with the lower bound made strict
QualifiesStrict(diff, found, min_diff) ==
    diff > 0 /\ (~found \/ diff < min_diff)
\* "if diff >= 0 and diff < min_diff"; min_diff starts as infinity (~found)
Qualifies(diff, found, min_diff) ==
    diff >= 0 /\ (~found \/ diff < min_diff)

\* the loop of pl_find_latest_move_env from slot i on
RECURSIVE FindFrom(_, _, _, _, _)
FindFrom(slots, cnt, i, min_diff, best) ==
    IF i >= max_file_count THEN best
    ELSE IF slots[i].st # "ok"
         THEN FindFrom(slots, cnt, i + 1, min_diff, best)
         ELSE LET diff == cnt - slots[i].line_count
              IN IF Qualifies(diff, best.index # NONE, min_diff)
                 THEN FindFrom(slots, cnt, i + 1, diff,
                               [index |-> i, data |-> slots[i]])
                 ELSE FindFrom(slots, cnt, i + 1, min_diff, best)

pl_find_latest_move_env(slots, cnt) == FindFrom(slots, cnt, 0, 0, NotFound)

NotAsked == [index |-> NONE - 1, data |-> AbsentSlot]

\* the selector is not exercised
SelectOff ==
    /\ ring = [i \in SlotIds |-> AbsentSlot]
    /\ line_cnt = 0
    /\ find_result = NotAsked

\* any ring content and any line, the selector not yet called
SelectStart ==
    /\ ring \in [SlotIds -> SelectSlots]
    /\ line_cnt \in SelectLines
    /\ find_result = NotAsked

SelectStep ==
    /\ find_result = NotAsked
    /\ find_result' = pl_find_latest_move_env(ring, line_cnt)
    /\ UNCHANGED <<ring, line_cnt>>

NextSelect == SelectStep /\ UNCHANGED <<store_vars, job_vars, replay_vars, more_vars>>

\* ========================================================================
\* Job stream: dispatcher, move-checkpoint ring, hardware record
\* ========================================================================
\* kinds of job-file line: a homing command, a motion command (G0..G3),
\* and anything else (M-codes, comments, blank lines)
GENERIC_MOVE_GCODE == {"G1"}
JobA == [i \in 1 .. FileLen |->
            IF i = 1 THEN "G28" ELSE IF i % 3 = 0 THEN "M" ELSE "G1"]
JobC == [i \in 1 .. FileLen |->
            IF i \in {1, 3} THEN "G28" ELSE IF i % 2 = 0 THEN "G1" ELSE "M"]
JobFiles == {JobA, JobC}

EmptyRing == [i \in SlotIds |-> AbsentSlot]
NoFileEnv == [exists |-> FALSE, env_flag |-> 0]
NoArchive == [made |-> FALSE, ring |-> EmptyRing, file_env |-> NoFileEnv,
              aux |-> FALSE]
McuOff == [armed |-> FALSE, env_flag |-> 0, line |-> NONE, pos |-> NONE]
FlashEmpty == [env_flag |-> 0, line |-> NONE, pos |-> NONE]
NoEnv == [ok |-> FALSE, current_line |-> 0, cur_file_pos |-> 0,
          last_file_pos |-> 0, cmd |-> "-", last_move_file_index |-> NONE,
          pl_save_data |-> AbsentSlot]
NotSpliced == [done |-> FALSE, file_position |-> 0, lines |-> 0, hw_pos |-> NONE]
NoAbort == [kind |-> "none", had_docs |-> FALSE]

\* the checkpoint documents on disk
Docs == [ring |-> ring, file_env |-> file_env, aux |-> aux_docs]
NoDocs == [ring |-> EmptyRing, file_env |-> NoFileEnv, aux |-> FALSE]
AnyDoc(d) == d.file_env.exists \/ d.aux \/ \E i \in SlotIds : d.ring[i].st # "absent"

\* get_pl_env_flag: one more than the flag read from flash at start-up
\* (the wrap at 2^32 - 2 is out of reach of MaxCrashes)
get_pl_env_flag == flash.env_flag + 1

\* rm_power_loss_info without its guard: the documents stay
rm_power_loss_info_skipped(d, shutdown) == d
\* rm_power_loss_info: every document is deleted unless the printer is
\* shut down
rm_power_loss_info(d, shutdown) == IF shutdown THEN d ELSE NoDocs

\* backup_print_env_info: a prior archive is removed; a new one is made
\* when some document exists
backup_print_env_info(d) ==
    IF AnyDoc(d)
    THEN [made |-> TRUE, ring |-> d.ring, file_env |-> d.file_env, aux |-> d.aux]
    ELSE NoArchive

\* file_position while a line executes, advanced to the next line early
PositionAdvancedEarly(fp, nfp) == nfp
\* file_position while a line executes: dispatch assigns only
\* next_file_position
PositionWhileExecuting(fp, nfp) == fp

\* history of ring writes: the line_count of the last two
NoteRingWrite(w, lc) == IF Len(w) = 0 THEN <<lc>> ELSE <<w[Len(w)], lc>>

\* the constructor's state of the VirtualSD object and its collaborators
Constructed ==
    /\ current_file = FALSE /\ file_position = 0 /\ next_file_position = 0
    /\ lines = 0 /\ current_line_gcode = "-"
    /\ work_timer = FALSE /\ wh = "none"
    /\ must_pause_work = FALSE /\ cmd_from_sd = FALSE
    /\ current_file_index = 0
    /\ pl_next_save_line = pl_start_save_line
    /\ pl_notify_start_line = pl_start_save_line
    /\ pl_mcu_flash_resume_line = NONE
    /\ pl_env_valid = FALSE
    /\ print_stats_state = "standby" /\ main_state = "IDLE"
    /\ homed = FALSE /\ in_shutdown_state = FALSE /\ booted = FALSE
    /\ rs = "none" /\ env = NoEnv

\* the job stream is not exercised
JobOff ==
    /\ job = JobA
    /\ Constructed
    /\ file_env = NoFileEnv /\ aux_docs = FALSE /\ archive = NoArchive
    /\ mcu = McuOff /\ flash = FlashEmpty
    /\ exec_pos = NONE /\ stopped_at = NONE
    /\ n_crashes = 0 /\ n_errors = 0 /\ n_prints = 0
    /\ ring_writes = <<>> /\ spliced = NotSpliced
    /\ last_abort = NoAbort /\ killed_in = "none" /\ boot_verdict = "unset"

\* some job file on the card, the VirtualSD object just constructed
JobStart ==
    /\ job \in JobFiles
    /\ Constructed
    /\ file_env = NoFileEnv /\ aux_docs = FALSE /\ archive = NoArchive
    /\ mcu = McuOff /\ flash = FlashEmpty
    /\ exec_pos = NONE /\ stopped_at = NONE
    /\ n_crashes = 0 /\ n_errors = 0 /\ n_prints = 0
    /\ ring_writes = <<>> /\ spliced = NotSpliced
    /\ last_abort = NoAbort /\ killed_in = "none" /\ boot_verdict = "unset"

\* job starts, instruction errors and kills so far
Events == n_prints + n_errors + n_crashes

\* commands are accepted: started up, not shut down, no restore running
Ready == booted /\ ~in_shutdown_state /\ rs = "none"

\* a restore command that does not look at the main state
RestoreAllowedAlways(ms) == TRUE

\* cmd_SDCARD_PRINT_PL_RESTORE goes on to restore_print only from IDLE
RestoreAllowed(ms) == ms = "IDLE"

\* a clear command that does not look at the main state
ClearAllowedAlways(ms) == TRUE

\* cmd_SDCARD_PRINT_PL_CLEAR_ENV goes on to rm_power_loss_info unless the
\* main state is PRINTING
ClearAllowed(ms) == ms # "PRINTING"

\* exit_to_idle(rm_pl_env_file = True) as a state update; the caller gives
\* the remaining variables
ExitToIdle ==
    /\ lines' = 0
    /\ current_line_gcode' = "-"
    /\ current_file_index' = 0
    /\ pl_notify_start_line' = pl_start_save_line
    /\ pl_next_save_line' = pl_start_save_line
    /\ pl_mcu_flash_resume_line' = NONE
    /\ ring' = rm_power_loss_info(Docs, in_shutdown_state).ring
    /\ file_env' = rm_power_loss_info(Docs, in_shutdown_state).file_env
    /\ aux_docs' = rm_power_loss_info(Docs, in_shutdown_state).aux
    /\ pl_env_valid' = (in_shutdown_state /\ pl_env_valid)
    /\ mcu' = McuOff
    /\ main_state' = "IDLE"
    /\ ring_writes' = <<>>

\* cmd_SDCARD_PRINT_FILE: _reset_file (exit_to_idle), rm_power_loss_info,
\* _load_file, do_resume
cmd_SDCARD_PRINT_FILE ==
    /\ Ready /\ ~work_timer
    /\ n_prints < MaxPrints /\ Events < MaxEvents
    /\ n_prints' = n_prints + 1
    /\ ExitToIdle
    /\ current_file' = TRUE /\ file_position' = 0
    /\ print_stats_state' = "standby"
    /\ must_pause_work' = FALSE /\ work_timer' = TRUE /\ wh' = "registered"
    /\ stopped_at' = NONE /\ spliced' = NotSpliced /\ last_abort' = NoAbort
    /\ UNCHANGED <<next_file_position, cmd_from_sd, homed, in_shutdown_state,
                   booted, rs, env, archive, flash, exec_pos, n_crashes,
                   n_errors, killed_in, boot_verdict>>
    /\ UNCHANGED <<store_vars, line_cnt, find_result, job, replay_vars, more_vars>>

\* do_resume (M24, RESUME): re-register the work loop at file_position
do_resume ==
    /\ Ready /\ ~work_timer /\ current_file
    /\ must_pause_work' = FALSE /\ work_timer' = TRUE /\ wh' = "registered"
    /\ last_abort' = NoAbort
    /\ UNCHANGED <<job, current_file, file_position, next_file_position, lines,
                   current_line_gcode, cmd_from_sd, current_file_index,
                   pl_next_save_line, pl_notify_start_line,
                   pl_mcu_flash_resume_line, pl_env_valid>>
    /\ UNCHANGED <<env_vars, disk_vars, hw_vars, ring>>
    /\ UNCHANGED <<exec_pos, stopped_at, n_crashes, n_errors, n_prints, ring_writes,
                   spliced, killed_in, boot_verdict>>
    /\ UNCHANGED <<store_vars, line_cnt, find_result, replay_vars, more_vars>>

\* do_pause (M25, PAUSE) from another command source: ask the loop to stop
\* at the next line boundary
do_pause ==
    /\ Ready /\ work_timer /\ wh \in {"registered", "loop"}
    /\ ~must_pause_work
    /\ must_pause_work' = TRUE
    /\ UNCHANGED <<job, current_file, file_position, next_file_position, lines,
                   current_line_gcode, work_timer, wh, cmd_from_sd,
                   current_file_index, pl_next_save_line, pl_notify_start_line,
                   pl_mcu_flash_resume_line, pl_env_valid>>
    /\ UNCHANGED <<env_vars, disk_vars, hw_vars, hist_vars, ring>>
    /\ UNCHANGED <<store_vars, line_cnt, find_result, replay_vars, more_vars>>

\* work_handler up to its loop: seek, SET_MAIN_STATE PRINTING, note_start
WorkHandlerStart ==
    /\ wh = "registered"
    /\ wh' = "loop"
    /\ main_state' = "PRINTING"
    /\ print_stats_state' = "printing"
    /\ last_abort' = NoAbort
    /\ UNCHANGED <<sd_vars_but_wh, homed, in_shutdown_state, booted, rs, env>>
    /\ UNCHANGED <<disk_vars, hw_vars, ring>>
    /\ UNCHANGED <<exec_pos, stopped_at, n_crashes, n_errors, n_prints,
                   ring_writes, spliced, killed_in, boot_verdict>>
    /\ UNCHANGED <<store_vars, line_cnt, find_result, replay_vars, more_vars>>

\* the loop finds must_pause_work set: note_pause
WorkLoopPauseExit ==
    /\ wh = "loop" /\ must_pause_work
    /\ wh' = "none" /\ work_timer' = FALSE /\ cmd_from_sd' = FALSE
    /\ print_stats_state' = "paused"
    /\ UNCHANGED <<job, current_file, file_position, next_file_position, lines,
                   current_line_gcode, must_pause_work, current_file_index,
                   pl_next_save_line, pl_notify_start_line,
                   pl_mcu_flash_resume_line, pl_env_valid>>
    /\ UNCHANGED <<main_state, homed, in_shutdown_state, booted, rs, env>>
    /\ UNCHANGED <<disk_vars, hw_vars, hist_vars, ring>>
    /\ UNCHANGED <<store_vars, line_cnt, find_result, replay_vars, more_vars>>

\* the loop reads end of file: note_complete, exit_to_idle
WorkLoopEOF ==
    /\ wh = "loop" /\ ~must_pause_work
    /\ file_position >= FileLen
    /\ ExitToIdle
    /\ current_file' = FALSE
    /\ wh' = "none" /\ work_timer' = FALSE /\ cmd_from_sd' = FALSE
    /\ print_stats_state' = "complete"
    /\ UNCHANGED <<job, file_position, next_file_position, must_pause_work>>
    /\ UNCHANGED <<homed, in_shutdown_state, booted, rs, env, archive, flash>>
    /\ UNCHANGED <<exec_pos, stopped_at, n_crashes, n_errors, n_prints, spliced,
                   last_abort, killed_in, boot_verdict>>
    /\ UNCHANGED <<store_vars, line_cnt, find_result, replay_vars, more_vars>>

\* dispatch of the next line up to run_script: next_file_position,
\* lines += 1, record_power_loss_info (arming at pl_notify_start_line)
DispatchBegin ==
    /\ wh = "loop" /\ ~must_pause_work
    /\ file_position < FileLen
    /\ wh' = "exec" /\ cmd_from_sd' = TRUE
    /\ next_file_position' = file_position + 1
    /\ file_position' = PositionWhileExecuting(file_position, file_position + 1)
    /\ pl_env_valid' = FALSE
    /\ lines' = lines + 1
    /\ exec_pos' = file_position
    /\ IF lines + 1 = pl_notify_start_line
       THEN /\ mcu' = [armed |-> TRUE, env_flag |-> get_pl_env_flag,
                       line |-> pl_mcu_flash_resume_line,
                       pos |-> IF pl_mcu_flash_resume_line = NONE
                               THEN NONE ELSE file_position - 1]
            /\ file_env' = [exists |-> TRUE, env_flag |-> get_pl_env_flag]
            /\ aux_docs' = (aux_docs \/ print_stats_state = "printing")
       ELSE UNCHANGED <<mcu, file_env, aux_docs>>
    /\ UNCHANGED <<job, current_file, current_line_gcode, work_timer,
                   must_pause_work, current_file_index, pl_next_save_line,
                   pl_notify_start_line, pl_mcu_flash_resume_line>>
    /\ UNCHANGED <<env_vars, archive, flash, ring>>
    /\ UNCHANGED <<stopped_at, n_crashes, n_errors, n_prints, ring_writes, spliced,
                   last_abort, killed_in, boot_verdict>>
    /\ UNCHANGED <<store_vars, line_cnt, find_result, replay_vars, more_vars>>

\* the peripherals record the line in execution as committed
HwCommit ==
    /\ mcu.armed /\ wh = "exec"
    /\ mcu.line = NONE \/ mcu.line < lines
    /\ mcu' = [mcu EXCEPT !.line = lines, !.pos = exec_pos]
    /\ UNCHANGED <<sd_vars, env_vars, disk_vars, flash, hist_vars, ring>>
    /\ UNCHANGED <<store_vars, line_cnt, find_result, replay_vars, more_vars>>

\* run_script returned: current_line_gcode,
\* record_pl_print_file_move_env, then file_position advances
ExecOk ==
    /\ wh = "exec"
    /\ LET line == job[exec_pos + 1]
           homed_after == homed \/ line = "G28"
           need_save == (lines >= pl_next_save_line \/ line = "G28") /\ homed_after
       IN /\ homed' = homed_after
          /\ current_line_gcode' = line
          /\ IF need_save
             THEN /\ ring' = [ring EXCEPT ![current_file_index] =
                                 MoveRecord(file_position, lines, line)]
                  /\ pl_next_save_line' = pl_next_save_line + pl_save_line_interval
                  /\ current_file_index' = (current_file_index + 1) % max_file_count
                  /\ ring_writes' = NoteRingWrite(ring_writes, lines)
             ELSE UNCHANGED <<ring, pl_next_save_line, current_file_index, ring_writes>>
    /\ wh' = "loop" /\ cmd_from_sd' = FALSE
    /\ file_position' = next_file_position
    /\ stopped_at' = NONE
    /\ UNCHANGED <<job, current_file, next_file_position, lines, work_timer,
                   must_pause_work, pl_notify_start_line,
                   pl_mcu_flash_resume_line, pl_env_valid>>
    /\ UNCHANGED <<print_stats_state, main_state, in_shutdown_state, booted, rs, env>>
    /\ UNCHANGED <<disk_vars, hw_vars>>
    /\ UNCHANGED <<exec_pos, n_crashes, n_errors, n_prints, spliced, last_abort,
                   killed_in, boot_verdict>>
    /\ UNCHANGED <<store_vars, line_cnt, find_result, replay_vars, more_vars>>

\* the line raised an error whose action is 'none': swallowed, the stream
\* goes on with the next line
ExecErrorNone ==
    /\ wh = "exec" /\ n_errors < MaxErrors /\ Events < MaxEvents
    /\ n_errors' = n_errors + 1
    /\ wh' = "loop" /\ cmd_from_sd' = FALSE
    /\ file_position' = next_file_position
    /\ stopped_at' = NONE
    /\ UNCHANGED <<job, current_file, next_file_position, lines,
                   current_line_gcode, work_timer, must_pause_work,
                   current_file_index, pl_next_save_line, pl_notify_start_line,
                   pl_mcu_flash_resume_line, pl_env_valid>>
    /\ UNCHANGED <<env_vars, disk_vars, hw_vars, ring>>
    /\ UNCHANGED <<exec_pos, n_crashes, n_prints, ring_writes, spliced, last_abort,
                   killed_in, boot_verdict>>
    /\ UNCHANGED <<store_vars, line_cnt, find_result, replay_vars, more_vars>>

\* the line raised an error whose action is 'pause' or 'pause_runout': the
\* PAUSE script runs (do_pause), the loop breaks, note_pause
ExecErrorPause ==
    /\ wh = "exec" /\ n_errors < MaxErrors /\ Events < MaxEvents
    /\ n_errors' = n_errors + 1
    /\ must_pause_work' = TRUE
    /\ wh' = "none" /\ work_timer' = FALSE /\ cmd_from_sd' = FALSE
    /\ print_stats_state' = "paused"
    /\ stopped_at' = exec_pos
    /\ UNCHANGED <<job, current_file, file_position, next_file_position, lines,
                   current_line_gcode, current_file_index, pl_next_save_line,
                   pl_notify_start_line, pl_mcu_flash_resume_line, pl_env_valid>>
    /\ UNCHANGED <<main_state, homed, in_shutdown_state, booted, rs, env>>
    /\ UNCHANGED <<disk_vars, hw_vars, ring>>
    /\ UNCHANGED <<exec_pos, n_crashes, n_prints, ring_writes, spliced, last_abort,
                   killed_in, boot_verdict>>
    /\ UNCHANGED <<store_vars, line_cnt, find_result, replay_vars, more_vars>>

\* the line raised any other error: on_error_gcode, the loop breaks,
\* note_error, exit_to_idle
ExecErrorFatal ==
    /\ wh = "exec" /\ n_errors < MaxErrors /\ Events < MaxEvents
    /\ n_errors' = n_errors + 1
    /\ ExitToIdle
    /\ wh' = "none" /\ work_timer' = FALSE /\ cmd_from_sd' = FALSE
    /\ print_stats_state' = "error"
    /\ stopped_at' = exec_pos
    /\ UNCHANGED <<job, current_file, file_position, next_file_position,
                   must_pause_work>>
    /\ UNCHANGED <<homed, in_shutdown_state, booted, rs, env, archive, flash>>
    /\ UNCHANGED <<exec_pos, n_crashes, n_prints, spliced, last_abort, killed_in,
                   boot_verdict>>
    /\ UNCHANGED <<store_vars, line_cnt, find_result, replay_vars, more_vars>>

\* ========================================================================
\* Recovery: start-up validation, replay positions, restore_print
\* ========================================================================
\* _update_mcu_flash_valid_line: the committed line read from flash at
\* start-up, when the flags of the flash record and of the file-identity
\* document agree
pl_mcu_flash_valid_line ==
    IF file_env.exists /\ flash.env_flag = file_env.env_flag
    THEN flash.line ELSE NONE

\* the replay loop of parse_power_loss_move_env, positions only: readline
\* until current_line reaches the target; the first line read is not
\* counted; None at end of file
RECURSIVE ReplayLoop(_, _, _, _, _)
ReplayLoop(target, current_line, cur_file_pos, first_read, sel) ==
    IF current_line > target \/ cur_file_pos >= FileLen \/ cur_file_pos < 0
    THEN NoEnv
    ELSE LET counted == IF first_read THEN current_line ELSE current_line + 1
         IN IF counted = target
            THEN [ok |-> TRUE, current_line |-> counted,
                  cur_file_pos |-> cur_file_pos + 1,
                  last_file_pos |-> cur_file_pos,
                  cmd |-> job[cur_file_pos + 1],
                  last_move_file_index |-> sel.index,
                  pl_save_data |-> sel.data]
            ELSE ReplayLoop(target, counted, cur_file_pos + 1, FALSE, sel)

\* the checks of parse_power_loss_move_env that precede the replay
ValidateOnly ==
    /\ file_env.exists
    /\ pl_mcu_flash_valid_line # NONE
    /\ pl_find_latest_move_env(ring, pl_mcu_flash_valid_line).index # NONE

parse_power_loss_move_env ==
    IF ~ValidateOnly THEN NoEnv
    ELSE LET sel == pl_find_latest_move_env(ring, pl_mcu_flash_valid_line)
         IN ReplayLoop(pl_mcu_flash_valid_line, sel.data.line_count,
                       sel.data.file_pos, TRUE, sel)

\* the ring removed as soon as the checkpoint is located
RingDroppedAtLocate(r) == EmptyRing
\* restore_print writes no checkpoint document before it removes the ring
\* slots (rm_power_loss_move_env_file): locating leaves the ring as read
RingAfterLocate(r) == r

\* power loss (the peripherals write their record to flash when armed) or
\* a kill of the process alone; the documents on disk stay
Crash ==
    /\ booted /\ n_crashes < MaxCrashes /\ Events < MaxEvents
    /\ n_crashes' = n_crashes + 1
    /\ \E power \in BOOLEAN :
         flash' = IF power /\ mcu.armed
                  THEN [env_flag |-> mcu.env_flag, line |-> mcu.line, pos |-> mcu.pos]
                  ELSE flash
    /\ mcu' = McuOff
    /\ current_file' = FALSE /\ file_position' = 0 /\ next_file_position' = 0
    /\ lines' = 0 /\ current_line_gcode' = "-"
    /\ work_timer' = FALSE /\ wh' = "none"
    /\ must_pause_work' = FALSE /\ cmd_from_sd' = FALSE
    /\ current_file_index' = 0
    /\ pl_next_save_line' = pl_start_save_line
    /\ pl_notify_start_line' = pl_start_save_line
    /\ pl_mcu_flash_resume_line' = NONE
    /\ pl_env_valid' = FALSE
    /\ print_stats_state' = "standby" /\ main_state' = "IDLE"
    /\ homed' = FALSE /\ in_shutdown_state' = FALSE /\ booted' = FALSE
    /\ rs' = "none" /\ env' = NoEnv
    /\ killed_in' = rs /\ boot_verdict' = "unset"
    /\ exec_pos' = NONE /\ stopped_at' = NONE
    /\ spliced' = NotSpliced /\ last_abort' = NoAbort
    /\ UNCHANGED <<job, disk_vars, ring, n_errors, n_prints, ring_writes>>
    /\ UNCHANGED <<store_vars, line_cnt, find_result, replay_vars, more_vars>>

\* handle_get_mcu_pl_flash_data: validate the recovery data at start-up,
\* remove it when invalid
handle_get_mcu_pl_flash_data ==
    /\ ~booted
    /\ booted' = TRUE
    /\ IF ValidateOnly
       THEN /\ pl_env_valid' = TRUE
            /\ boot_verdict' = "valid"
            /\ UNCHANGED <<ring, file_env, aux_docs>>
       ELSE /\ pl_env_valid' = FALSE
            /\ boot_verdict' = "invalid"
            /\ ring' = rm_power_loss_info(Docs, in_shutdown_state).ring
            /\ file_env' = rm_power_loss_info(Docs, in_shutdown_state).file_env
            /\ aux_docs' = rm_power_loss_info(Docs, in_shutdown_state).aux
    /\ UNCHANGED <<job, current_file, file_position, next_file_position, lines,
                   current_line_gcode, work_timer, wh, must_pause_work,
                   cmd_from_sd, current_file_index, pl_next_save_line,
                   pl_notify_start_line, pl_mcu_flash_resume_line>>
    /\ UNCHANGED <<print_stats_state, main_state, homed, in_shutdown_state, rs, env>>
    /\ UNCHANGED <<archive, hw_vars>>
    /\ UNCHANGED <<exec_pos, stopped_at, n_crashes, n_errors, n_prints, ring_writes,
                   spliced, last_abort, killed_in>>
    /\ UNCHANGED <<store_vars, line_cnt, find_result, replay_vars, more_vars>>

\* force_refresh_move_env_extruder: rewrite the newest usable slot from
\* the paused interpreter state and remove every other slot
force_refresh_move_env_extruder ==
    /\ Ready /\ main_state = "PRINTING" /\ print_stats_state = "paused"
    /\ LET min_line == IF mcu.line # NONE /\ mcu.line < lines THEN mcu.line ELSE lines
           sel == pl_find_latest_move_env(ring, min_line)
           data == IF sel.data.line_count # lines
                   THEN MoveRecord(file_position, min_line, current_line_gcode)
                   ELSE sel.data
       IN /\ sel.index # NONE
          /\ ring' = [EmptyRing EXCEPT ![sel.index] = data]
          /\ current_file_index' = (sel.index + 1) % max_file_count
          /\ ring_writes' = NoteRingWrite(ring_writes, data.line_count)
    /\ UNCHANGED <<job, current_file, file_position, next_file_position, lines,
                   current_line_gcode, work_timer, wh, must_pause_work,
                   cmd_from_sd, pl_next_save_line, pl_notify_start_line,
                   pl_mcu_flash_resume_line, pl_env_valid>>
    /\ UNCHANGED <<env_vars, disk_vars, hw_vars>>
    /\ UNCHANGED <<exec_pos, stopped_at, n_crashes, n_errors, n_prints, spliced,
                   last_abort, killed_in, boot_verdict>>
    /\ UNCHANGED <<store_vars, line_cnt, find_result, replay_vars, more_vars>>

\* the except clause of restore_print: backup_print_env_info,
\* rm_power_loss_info, disarm, SET_MAIN_STATE IDLE, raise.  In shutdown
\* state the commands to the peripherals and to the state manager may or
\* may not take effect.
RestoreAbort(shutdown) ==
    /\ archive' = backup_print_env_info(Docs)
    /\ ring' = rm_power_loss_info(Docs, shutdown).ring
    /\ file_env' = rm_power_loss_info(Docs, shutdown).file_env
    /\ aux_docs' = rm_power_loss_info(Docs, shutdown).aux
    /\ pl_env_valid' = (shutdown /\ pl_env_valid)
    /\ \E took \in BOOLEAN :
         /\ shutdown \/ took
         /\ mcu' = IF took THEN McuOff ELSE mcu
         /\ main_state' = IF took THEN "IDLE" ELSE "PRINTING"
    /\ in_shutdown_state' = shutdown
    /\ rs' = "none" /\ env' = NoEnv
    /\ last_abort' = [kind |-> IF shutdown THEN "shutdown" ELSE "clean",
                      had_docs |-> AnyDoc(Docs)]
    /\ UNCHANGED <<job, current_file, file_position, next_file_position, lines,
                   current_line_gcode, work_timer, wh, must_pause_work,
                   cmd_from_sd, current_file_index, pl_next_save_line,
                   pl_notify_start_line, pl_mcu_flash_resume_line>>
    /\ UNCHANGED <<print_stats_state, homed, booted, flash>>
    /\ UNCHANGED <<exec_pos, stopped_at, n_crashes, n_errors, n_prints, ring_writes,
                   spliced, killed_in, boot_verdict>>
    /\ UNCHANGED <<store_vars, line_cnt, find_result, replay_vars, more_vars>>

\* cmd_SDCARD_PRINT_PL_RESTORE when parse_power_loss_move_env raises or
\* returns None: the sequence aborts at once
RestoreNoCheckpoint ==
    /\ Ready /\ RestoreAllowed(main_state)
    /\ ~parse_power_loss_move_env.ok
    /\ RestoreAbort(FALSE)

\* a step of the running sequence fails, by itself or because the printer
\* shut down
RestoreStepFails ==
    /\ rs # "none"
    /\ \E shutdown \in BOOLEAN : RestoreAbort(shutdown)

\* cmd_SDCARD_PRINT_PL_RESTORE, restore_print up to the located
\* checkpoint: SET_MAIN_STATE PRINTING, parse_power_loss_move_env
RestoreBegin ==
    /\ Ready /\ RestoreAllowed(main_state)
    /\ parse_power_loss_move_env.ok
    /\ env' = parse_power_loss_move_env
    /\ rs' = "located"
    /\ main_state' = "PRINTING"
    /\ last_abort' = NoAbort
    /\ ring' = RingAfterLocate(ring)
    /\ UNCHANGED <<sd_vars, print_stats_state, homed, in_shutdown_state, booted>>
    /\ UNCHANGED <<disk_vars, hw_vars>>
    /\ UNCHANGED <<exec_pos, stopped_at, n_crashes, n_errors, n_prints, ring_writes,
                   spliced, killed_in, boot_verdict>>
    /\ UNCHANGED <<store_vars, line_cnt, find_result, replay_vars, more_vars>>

\* preflight, homing of X and Y, Z position from the flash record
RestoreHoming ==
    /\ rs = "located"
    /\ rs' = "homed"
    /\ homed' = TRUE
    /\ UNCHANGED <<sd_vars, print_stats_state, main_state, in_shutdown_state,
                   booted, env>>
    /\ UNCHANGED <<disk_vars, hw_vars, hist_vars, ring>>
    /\ UNCHANGED <<store_vars, line_cnt, find_result, replay_vars, more_vars>>

\* rm_power_loss_move_env_file: every ring slot is removed
RestoreRemoveSlots ==
    /\ rs = "homed"
    /\ rs' = "cleared"
    /\ ring' = EmptyRing
    /\ UNCHANGED <<sd_vars, print_stats_state, main_state, homed,
                   in_shutdown_state, booted, env>>
    /\ UNCHANGED <<disk_vars, hw_vars, hist_vars>>
    /\ UNCHANGED <<store_vars, line_cnt, find_result, replay_vars, more_vars>>

\* the selected checkpoint is saved again in its slot and the peripherals
\* are armed with the replayed line
RestoreRewrite ==
    /\ rs = "cleared"
    /\ rs' = "saved"
    /\ ring' = [ring EXCEPT ![env.last_move_file_index] = env.pl_save_data]
    /\ ring_writes' = NoteRingWrite(ring_writes, env.pl_save_data.line_count)
    /\ mcu' = [armed |-> TRUE, env_flag |-> get_pl_env_flag,
               line |-> env.current_line, pos |-> flash.pos]
    /\ UNCHANGED <<sd_vars, print_stats_state, main_state, homed,
                   in_shutdown_state, booted, env>>
    /\ UNCHANGED <<disk_vars, flash>>
    /\ UNCHANGED <<exec_pos, stopped_at, n_crashes, n_errors, n_prints, spliced,
                   last_abort, killed_in, boot_verdict>>
    /\ UNCHANGED <<store_vars, line_cnt, find_result, replay_vars, more_vars>>

\* the file-identity document takes the new flag
RestoreFileEnv ==
    /\ rs = "saved"
    /\ rs' = "flagged"
    /\ file_env' = [exists |-> TRUE, env_flag |-> get_pl_env_flag]
    /\ UNCHANGED <<sd_vars, print_stats_state, main_state, homed,
                   in_shutdown_state, booted, env>>
    /\ UNCHANGED <<aux_docs, archive, hw_vars, hist_vars, ring>>
    /\ UNCHANGED <<store_vars, line_cnt, find_result, replay_vars, more_vars>>

\* purge, reposition, then the splice: _pl_recovery_reset_file,
\* _load_file, file_position and lines from the replay, do_resume
RestoreSplice ==
    /\ rs = "flagged" /\ ~work_timer
    /\ rs' = "none" /\ env' = NoEnv
    /\ current_file' = TRUE
    /\ print_stats_state' = "standby"
    /\ LET skip_line == env.cmd \in GENERIC_MOVE_GCODE
           fp == IF skip_line THEN env.cur_file_pos ELSE env.last_file_pos
           ln == IF skip_line THEN env.current_line ELSE env.current_line - 1
       IN /\ file_position' = fp
          /\ lines' = ln
          /\ pl_notify_start_line' = ln + 1
          /\ pl_next_save_line' = ln + pl_save_line_interval
          /\ pl_mcu_flash_resume_line' = ln
          /\ exec_pos' = fp - 1
          /\ spliced' = [done |-> TRUE, file_position |-> fp, lines |-> ln,
                         hw_pos |-> flash.pos]
    /\ current_file_index' = (env.last_move_file_index + 1) % max_file_count
    /\ must_pause_work' = FALSE /\ work_timer' = TRUE /\ wh' = "registered"
    /\ stopped_at' = NONE
    /\ UNCHANGED <<job, next_file_position, current_line_gcode, cmd_from_sd,
                   pl_env_valid>>
    /\ UNCHANGED <<main_state, homed, in_shutdown_state, booted>>
    /\ UNCHANGED <<disk_vars, hw_vars, ring>>
    /\ UNCHANGED <<n_crashes, n_errors, n_prints, ring_writes, last_abort, killed_in,
                   boot_verdict>>
    /\ UNCHANGED <<store_vars, line_cnt, find_result, replay_vars, more_vars>>

Next ==
    \/ cmd_SDCARD_PRINT_FILE
    \/ do_resume
    \/ do_pause
    \/ WorkHandlerStart
    \/ WorkLoopPauseExit
    \/ WorkLoopEOF
    \/ DispatchBegin
    \/ HwCommit
    \/ ExecOk
    \/ ExecErrorNone
    \/ ExecErrorPause
    \/ ExecErrorFatal
    \/ force_refresh_move_env_extruder
    \/ Crash
    \/ handle_get_mcu_pl_flash_data
    \/ RestoreNoCheckpoint
    \/ RestoreStepFails
    \/ RestoreBegin
    \/ RestoreHoming
    \/ RestoreRemoveSlots
    \/ RestoreRewrite
    \/ RestoreFileEnv
    \/ RestoreSplice

\* ========================================================================
\* Replay: parse_power_loss_move_env with GCodeStateTracker, two runs
\* ========================================================================
Runs == {1, 2}

\* job-file lines of the replayed range; an absent parameter is NONE
LineG1 == [cmd |-> "G1", x |-> 2, e |-> 1]
LineG91 == [cmd |-> "G91", x |-> NONE, e |-> NONE]
LineG92 == [cmd |-> "G92", x |-> NONE, e |-> NONE]
LineT1 == [cmd |-> "T1", x |-> NONE, e |-> NONE]
NoLine == [cmd |-> "-", x |-> NONE, e |-> NONE]
ReplayLines == {LineG1, LineG91, LineG92, LineT1}
TOOL_CHANGE_COMMANDS == {"T1"}

\* the text from the checkpoint's own line on
ReplayTexts == {<<LineG1>> \o t : t \in [1 .. MaxReplay -> ReplayLines]}

\* the persisted move-checkpoint records tried
ReplayRecords ==
    {[file_pos |-> 0, line_count |-> 5, extruder |-> "T0", speed |-> 3,
      absolute_coord |-> TRUE, absolute_extrude |-> ae,
      base_position |-> [x |-> 0, e |-> 0],
      last_position |-> [x |-> 1, e |-> 1],
      homing_position |-> [x |-> 0, e |-> 0]] : ae \in BOOLEAN}

\* the flow/speed-factor document: absent, or factors of 200 percent.
\* The speed factor is counted in units of 1/60.
ReplayFactors == {[flow_factor |-> NONE, speed_factor |-> NONE,
                   speed_factor_bak |-> NONE],
                  [flow_factor |-> 2, speed_factor |-> 2, speed_factor_bak |-> 2]}

\* the tool configuration a run finds in memory: extruder_map_table[1] of
\* print_task_config and the gcode_offset of extruder T1
ToolConfigs == [map1 : {0, 1}, offset1 : {0, 3}]

\* speed_factor at construction taken from the live interpreter
LiveSpeedFactor(live) == live
\* "self.speed_factor = self.speed_factor_bak = 1. / 60."
InitialSpeedFactor(live) == 1

\* GCodeStateTracker.__init__: the scalar fields; the three position lists
\* are the record's own lists (see data in ReplayOpen)
GCodeStateTrackerInit(rec, live) ==
    [extrude_factor |-> 1,
     speed_factor |-> InitialSpeedFactor(live),
     speed_factor_bak |-> InitialSpeedFactor(live),
     speed |-> rec.speed * InitialSpeedFactor(live),
     extruder_gcode_id |-> rec.extruder,
     absolute_coord |-> rec.absolute_coord,
     absolute_extrude |-> rec.absolute_extrude]

\* GCodeStateTracker.set_factors
set_factors(tr, f) ==
    LET t1 == IF f.flow_factor # NONE
              THEN [tr EXCEPT !.extrude_factor = f.flow_factor] ELSE tr
        t2 == IF f.speed_factor # NONE
              THEN [t1 EXCEPT !.speed = (f.speed_factor * t1.speed) \div t1.speed_factor,
                              !.speed_factor = f.speed_factor]
              ELSE t1
    IN IF f.speed_factor_bak # NONE
       THEN [t2 EXCEPT !.speed_factor_bak = f.speed_factor_bak]
       ELSE t2

\* GCodeStateTracker.set_gcode_offset for the X axis
set_gcode_offset(d, offset) ==
    [d EXCEPT !.base_position.x = d.base_position.x + (offset - d.homing_position.x),
              !.homing_position.x = offset]

\* extruder.gcode_offset[0] of the extruder whose gcode_id is id
gcode_offset(cfg, id) == IF id = "T1" THEN cfg.offset1 ELSE 0

\* GCodeStateTracker.update_position on the pair (tracker scalars, lists)
update_position(tr, d, line, cfg) ==
    IF line.cmd = "G91" THEN [tr |-> [tr EXCEPT !.absolute_coord = FALSE], data |-> d]
    ELSE IF line.cmd = "G92"
    THEN [tr |-> tr, data |-> [d EXCEPT !.base_position = d.last_position]]
    ELSE IF line.cmd = "SET_GCODE_OFFSET"
    THEN \* SET_GCODE_OFFSET X_ADJUST=<x>: offset += self.homing_position[pos]
         [tr |-> tr, data |-> set_gcode_offset(d, line.x + d.homing_position.x)]
    ELSE IF line.cmd \in TOOL_CHANGE_COMMANDS
    THEN LET id == IF cfg.map1 = 1 THEN "T1" ELSE "T0"
         IN [tr |-> [tr EXCEPT !.extruder_gcode_id = id],
             data |-> IF id # tr.extruder_gcode_id
                      THEN set_gcode_offset(d, gcode_offset(cfg, id))
                      ELSE d]
    ELSE IF line.cmd = "M220"
    THEN \* M220 S200: value = 200 / (60 * 100), two units of 1/60
         [tr |-> [tr EXCEPT !.speed = (tr.speed * 2) \div tr.speed_factor,
                            !.speed_factor = 2],
          data |-> d]
    ELSE IF line.cmd = "M221"
    THEN \* M221 S200: new_extrude_factor = 2
         LET last_e_pos == d.last_position.e
             scaled == ((last_e_pos - d.base_position.e) * 2) \div tr.extrude_factor
         IN [tr |-> [tr EXCEPT !.extrude_factor = 2],
             data |-> [d EXCEPT !.base_position.e = last_e_pos - scaled]]
    ELSE IF line.cmd = "G1"
    THEN LET v == line.e * tr.extrude_factor
             nx == IF tr.absolute_coord THEN line.x + d.base_position.x
                   ELSE d.last_position.x + line.x
             ne == IF ~tr.absolute_coord \/ ~tr.absolute_extrude
                   THEN d.last_position.e + v
                   ELSE v + d.base_position.e
         IN [tr |-> tr,
             data |-> [d EXCEPT !.last_position = [x |-> nx, e |-> ne]]]
    ELSE [tr |-> tr, data |-> d]

NoTracker == GCodeStateTrackerInit(CHOOSE r \in ReplayRecords : TRUE, 1)
IdleRun == [pc |-> "idle", current_line |-> 0, cur_file_pos |-> 0,
            last_file_pos |-> 0, first_read |-> TRUE,
            tr |-> NoTracker,
            data |-> CHOOSE r \in ReplayRecords : TRUE,
            out |-> NoLine]

\* no replay is exercised
ReplayOff ==
    /\ replay_in = [rec |-> CHOOSE r \in ReplayRecords : TRUE,
                    text |-> <<LineG1>>, target |-> 0,
                    factors |-> [flow_factor |-> NONE, speed_factor |-> NONE,
                                 speed_factor_bak |-> NONE],
                    cfg |-> [r \in Runs |-> [map1 |-> 0, offset1 |-> 0]],
                    live |-> [r \in Runs |-> 1]]
    /\ run = [r \in Runs |-> IdleRun]

\* one persisted checkpoint record, factor document, text and target line;
\* each run with its own tool configuration and live interpreter state
ReplayStart ==
    /\ replay_in \in [rec : ReplayRecords, text : ReplayTexts,
                      target : 5 .. (5 + MaxReplay + 1),
                      factors : ReplayFactors,
                      cfg : [Runs -> ToolConfigs],
                      live : {[r \in Runs |-> r]}]
    /\ run = [r \in Runs |-> IdleRun]

\* parse_power_loss_move_env up to its loop: the record is read from
\* disk, the tracker is built on it, set_factors, seek
ReplayOpen(r) ==
    /\ run[r].pc = "idle"
    /\ run' = [run EXCEPT ![r] =
                 [pc |-> "loop", current_line |-> replay_in.rec.line_count,
                  cur_file_pos |-> replay_in.rec.file_pos,
                  last_file_pos |-> replay_in.rec.file_pos,
                  first_read |-> TRUE,
                  tr |-> set_factors(GCodeStateTrackerInit(replay_in.rec,
                                                           replay_in.live[r]),
                                     replay_in.factors),
                  data |-> replay_in.rec,
                  out |-> NoLine]]
    /\ UNCHANGED replay_in

\* one pass of the loop: readline, update_position unless first_read,
\* return at the target line; None at end of file or past the target
ReplayRead(r) ==
    /\ run[r].pc = "loop"
    /\ LET s == run[r]
           eof == s.cur_file_pos >= Len(replay_in.text)
       IN IF s.current_line > replay_in.target \/ eof
          THEN run' = [run EXCEPT ![r].pc = "none",
                                  ![r].last_file_pos = s.cur_file_pos]
          ELSE LET line == replay_in.text[s.cur_file_pos + 1]
                   u == IF s.first_read THEN [tr |-> s.tr, data |-> s.data]
                        ELSE update_position(s.tr, s.data, line, replay_in.cfg[r])
                   counted == IF s.first_read THEN s.current_line
                              ELSE s.current_line + 1
               IN run' = [run EXCEPT ![r] =
                            [pc |-> IF counted = replay_in.target
                                    THEN "returned" ELSE "loop",
                             current_line |-> counted,
                             cur_file_pos |-> s.cur_file_pos + 1,
                             last_file_pos |-> s.cur_file_pos,
                             first_read |-> FALSE,
                             tr |-> u.tr, data |-> u.data,
                             out |-> IF counted = replay_in.target
                                     THEN line ELSE NoLine]]
    /\ UNCHANGED replay_in

NextReplay ==
    \/ \E r \in Runs : ReplayOpen(r) /\ UNCHANGED <<store_vars, select_vars, job_vars, more_vars>>
    \/ \E r \in Runs : ReplayRead(r) /\ UNCHANGED <<store_vars, select_vars, job_vars, more_vars>>

\* ========================================================================
\* The live interpreter next to the replay of its checkpoint
\* ========================================================================
\* number of lines of the job text the live interpreter executes
MaxLive == 3

\* "M221 S200" and "M220 S200"
LineM221 == [cmd |-> "M221", x |-> NONE, e |-> NONE]
LineM220 == [cmd |-> "M220", x |-> NONE, e |-> NONE]
\* "SET_GCODE_OFFSET X_ADJUST=1"
LineAdjust == [cmd |-> "SET_GCODE_OFFSET", x |-> 1, e |-> NONE]
LiveLines == {LineG1, LineG92, LineM221, LineM220, LineAdjust}
LiveTexts == [1 .. MaxLive -> LiveLines]

\* one tool, no remapping
LiveToolConfig == [map1 |-> 0, offset1 |-> 0]

\* the interpreter (gcode_move) when the job starts: factors of 100 percent
LiveStartState(ae) ==
    [tr |-> [extrude_factor |-> 1, speed_factor |-> 1, speed_factor_bak |-> 1,
             speed |-> 3, extruder_gcode_id |-> "T0",
             absolute_coord |-> TRUE, absolute_extrude |-> ae],
     data |-> [base_position |-> [x |-> 0, e |-> 0],
               last_position |-> [x |-> 0, e |-> 0],
               homing_position |-> [x |-> 0, e |-> 0]]]

\* the interpreter executes one line of the supported subset
LiveExecLine(st, line) == update_position(st.tr, st.data, line, LiveToolConfig)

\* record_pl_print_flow_and_speed_factor(force_update=True): the factor
\* document takes the interpreter's factors
FactorDocument(st) ==
    [flow_factor |-> st.tr.extrude_factor,
     speed_factor |-> st.tr.speed_factor,
     speed_factor_bak |-> st.tr.speed_factor_bak]

\* the data of record_pl_print_file_move_env: the move-checkpoint record
\* taken from the interpreter after line line_count
MoveEnvData(st, line_count, file_pos) ==
    [file_pos |-> file_pos, line_count |-> line_count,
     extruder |-> st.tr.extruder_gcode_id,
     speed |-> st.tr.speed \div st.tr.speed_factor,
     absolute_coord |-> st.tr.absolute_coord,
     absolute_extrude |-> st.tr.absolute_extrude,
     base_position |-> st.data.base_position,
     last_position |-> st.data.last_position,
     homing_position |-> st.data.homing_position]

\* the positions a tracker or the interpreter holds
Positions(d) ==
    [base_position |-> d.base_position, last_position |-> d.last_position,
     homing_position |-> d.homing_position]

\* the loop of parse_power_loss_move_env on the tracker: update_position
\* for the lines after the checkpoint's own line up to the target
RECURSIVE ReplayFrom(_, _, _, _)
ReplayFrom(st, text, current_line, target) ==
    IF current_line >= target \/ current_line >= Len(text) THEN st
    ELSE ReplayFrom(update_position(st.tr, st.data, text[current_line + 1],
                                    LiveToolConfig),
                    text, current_line + 1, target)

\* parse_power_loss_move_env: the tracker built on the record, set_factors
\* from the factor document, then the loop
ReplayOfCheckpoint(rec, doc, text, target) ==
    LET st == ReplayFrom([tr |-> set_factors(GCodeStateTrackerInit(rec, 1), doc),
                          data |-> rec],
                         text, rec.line_count, target)
    IN [tr |-> st.tr, data |-> Positions(st.data)]

NoMoveEnv == [st |-> "absent"]
NoReplay == [st |-> "none"]

\* the live interpreter is not exercised
LiveOff ==
    lv = [text |-> <<LineG1>>, hook |-> FALSE, pc |-> "off", n |-> 0,
          st |-> LiveStartState(TRUE), doc |-> FactorDocument(LiveStartState(TRUE)),
          rec |-> NoMoveEnv, target |-> 0, at |-> LiveStartState(TRUE),
          out |-> NoReplay]

\* a job text; the peripherals are armed at the first line, where
\* flush_pl_print_env writes the factor document.  hook: the interpreter's
\* M220 and M221 handlers write the factor document as well.
LiveStart ==
    \E text \in LiveTexts, hook, ae \in BOOLEAN :
        lv = [text |-> text, hook |-> hook, pc |-> "printing", n |-> 0,
              st |-> LiveStartState(ae), doc |-> FactorDocument(LiveStartState(ae)),
              rec |-> NoMoveEnv, target |-> 0, at |-> LiveStartState(ae),
              out |-> NoReplay]

\* the dispatcher runs the next line through the interpreter
LiveExec ==
    /\ lv.pc = "printing" /\ lv.n < Len(lv.text)
    /\ LET line == lv.text[lv.n + 1]
           st == LiveExecLine(lv.st, line)
       IN lv' = [lv EXCEPT !.n = lv.n + 1, !.st = st,
                           !.doc = IF lv.hook /\ line.cmd \in {"M220", "M221"}
                                   THEN FactorDocument(st) ELSE lv.doc]

\* record_pl_print_file_move_env after the line: the checkpoint the
\* selector will pick (no later one is written before the commit)
LiveSave ==
    /\ lv.pc = "printing" /\ lv.n >= 1 /\ lv.target = 0
    /\ lv.rec = NoMoveEnv
    /\ lv' = [lv EXCEPT !.rec = MoveEnvData(lv.st, lv.n, lv.n)]

\* the peripherals record the line just executed as committed
LiveCommit ==
    /\ lv.pc = "printing" /\ lv.rec # NoMoveEnv /\ lv.n > lv.target
    /\ lv' = [lv EXCEPT !.target = lv.n, !.at = lv.st]

\* power loss after some line was committed
LivePowerLoss ==
    /\ lv.pc = "printing" /\ lv.target > 0
    /\ lv' = [lv EXCEPT !.pc = "down"]

\* after the restart: parse_power_loss_move_env for the committed line
LiveReplay ==
    /\ lv.pc = "down"
    /\ lv' = [lv EXCEPT !.pc = "replayed",
                        !.out = ReplayOfCheckpoint(lv.rec, lv.doc, lv.text,
                                                   lv.target)]

NextLive ==
    \/ (LiveExec /\ UNCHANGED <<store_vars, select_vars, job_vars, replay_vars, cmd_vars, disp_vars,
                     late_vars>>)
    \/ (LiveSave /\ UNCHANGED <<store_vars, select_vars, job_vars, replay_vars, cmd_vars, disp_vars,
                     late_vars>>)
    \/ (LiveCommit /\ UNCHANGED <<store_vars, select_vars, job_vars, replay_vars, cmd_vars, disp_vars,
                     late_vars>>)
    \/ (LivePowerLoss /\ UNCHANGED <<store_vars, select_vars, job_vars, replay_vars, cmd_vars, disp_vars,
                     late_vars>>)
    \/ (LiveReplay /\ UNCHANGED <<store_vars, select_vars, job_vars, replay_vars, cmd_vars, disp_vars,
                     late_vars>>)

\* ========================================================================
\* Operator commands on the recovery data
\* ========================================================================
\* no recovery command was issued
RESTORE_REJECTED == "0001-0531-0000-0005"
CLEAR_REJECTED == "0001-0531-0000-0006"

\* no recovery command has been issued
NoCmd == [code |-> "none", had_docs |-> FALSE]
CmdOff == cmd_status = NoCmd

\* the response of a recovery command, and whether checkpoint documents
\* were on disk when it was issued
CmdResponse(code) == [code |-> code, had_docs |-> AnyDoc(Docs)]

\* a recovery command can be issued: the response of the one before it
\* has been delivered
CmdReady == Ready /\ cmd_status = NoCmd

\* cmd_SDCARD_PRINT_PL_RESTORE outside IDLE: the structured error is raised
\* before restore_print is reached (from IDLE the command is RestoreBegin
\* or RestoreNoCheckpoint)
cmd_SDCARD_PRINT_PL_RESTORE ==
    /\ CmdReady
    /\ ~RestoreAllowed(main_state)
    /\ cmd_status' = CmdResponse(RESTORE_REJECTED)
    /\ UNCHANGED <<store_vars, select_vars, job_vars, replay_vars, live_vars, disp_vars,
                 late_vars>>

\* cmd_SDCARD_PRINT_PL_CLEAR_ENV: the structured error while PRINTING,
\* rm_power_loss_info otherwise
cmd_SDCARD_PRINT_PL_CLEAR_ENV ==
    /\ CmdReady
    /\ IF ClearAllowed(main_state)
       THEN /\ ring' = rm_power_loss_info(Docs, in_shutdown_state).ring
            /\ file_env' = rm_power_loss_info(Docs, in_shutdown_state).file_env
            /\ aux_docs' = rm_power_loss_info(Docs, in_shutdown_state).aux
            /\ pl_env_valid' = (in_shutdown_state /\ pl_env_valid)
            /\ cmd_status' = CmdResponse("ok")
       ELSE /\ cmd_status' = CmdResponse(CLEAR_REJECTED)
            /\ UNCHANGED <<ring, file_env, aux_docs, pl_env_valid>>
    /\ UNCHANGED <<job, current_file, file_position, next_file_position, lines,
                   current_line_gcode, work_timer, wh, must_pause_work,
                   cmd_from_sd, current_file_index, pl_next_save_line,
                   pl_notify_start_line, pl_mcu_flash_resume_line>>
    /\ UNCHANGED <<env_vars, archive, hw_vars, hist_vars>>
    /\ UNCHANGED <<store_vars, line_cnt, find_result, replay_vars, live_vars, disp_vars,
                 late_vars>>

\* the response is delivered to the client
CmdReturn ==
    /\ cmd_status # NoCmd
    /\ cmd_status' = NoCmd
    /\ UNCHANGED <<store_vars, select_vars, job_vars, replay_vars, live_vars, disp_vars,
                 late_vars>>

\* a command handler runs to its end before anything else does
NextCmd ==
    \/ cmd_status = NoCmd /\ Next
    \/ cmd_SDCARD_PRINT_PL_RESTORE
    \/ cmd_SDCARD_PRINT_PL_CLEAR_ENV
    \/ CmdReturn

\* ========================================================================
\* The dispatcher with its callers: pause, cancel, failures
\* ========================================================================
\* the job files of this part: plain lines, an M25 in the stream, a
\* CANCEL_PRINT in the stream, and a command of another module that calls
\* set_file_position while it runs ("SEEK")
STREAM_COMMANDS == {"M25", "CANCEL_PRINT", "SEEK"}
JobM25 == [i \in 1 .. FileLen |->
              IF i = 1 THEN "G28" ELSE IF i = 2 THEN "M25" ELSE "G1"]
JobCancel == [i \in 1 .. FileLen |->
                 IF i = 1 THEN "G28" ELSE IF i = 3 THEN "CANCEL_PRINT" ELSE "G1"]
JobSeek == [i \in 1 .. FileLen |->
               IF i = 1 THEN "G28" ELSE IF i = 2 THEN "SEEK" ELSE "G1"]
DispJobs == {JobA, JobM25, JobCancel, JobSeek}

\* action tags of an instruction error
PAUSE_ACTIONS == {"pause", "pause_runout"}

NoPauseReturn == [src |-> "none", active |-> FALSE]
NoExit == [how |-> "none", state |-> "standby", noted |-> FALSE, docs_kept |-> TRUE]
NoError == [tag |-> "-", logged |-> FALSE]

\* the dispatcher part is not exercised
DispOff ==
    /\ print_start_time = FALSE /\ sd_paused = FALSE /\ caller = "none"
    /\ pause_ret = NoPauseReturn /\ wh_exit = NoExit /\ cancel_done = FALSE
    /\ err_log = NoError

\* some job file of this part on the card, the VirtualSD object just
\* constructed
DispJobStart ==
    /\ job \in DispJobs
    /\ Constructed
    /\ file_env = NoFileEnv /\ aux_docs = FALSE /\ archive = NoArchive
    /\ mcu = McuOff /\ flash = FlashEmpty
    /\ exec_pos = NONE /\ stopped_at = NONE
    /\ n_crashes = 0 /\ n_errors = 0 /\ n_prints = 0
    /\ ring_writes = <<>> /\ spliced = NotSpliced
    /\ last_abort = NoAbort /\ killed_in = "none" /\ boot_verdict = "unset"

\* what no action of this part changes
disp_static == <<store_vars, line_cnt, find_result, replay_vars, live_vars, cmd_vars,
                 late_vars,
                 job, homed, in_shutdown_state, booted, rs, env, archive, flash,
                 exec_pos, n_crashes, spliced, last_abort, killed_in, boot_verdict>>
\* what exit_to_idle sets
idle_vars_but_main == <<lines, current_line_gcode, current_file_index,
                        pl_notify_start_line, pl_next_save_line,
                        pl_mcu_flash_resume_line, ring, file_env, aux_docs,
                        pl_env_valid, mcu, ring_writes>>
idle_vars == <<idle_vars_but_main, main_state>>

\* print_stats._note_finish: nothing is marked when no print was started
note_finish(state, started, new_state) == IF started THEN new_state ELSE state

\* a note_pause that marks nothing
note_pause_skipped(state) == state

\* print_stats.note_pause
note_pause(state) == IF state # "error" THEN "paused" ELSE state

\* the gcode dispatcher reports an instruction error before it raises it
respond_error(tag) == [tag |-> tag, logged |-> TRUE]

\* logging.exception: a failure that is no instruction error goes to the
\* log without an action tag
log_exception == [tag |-> "exception", logged |-> TRUE]

\* a do_pause that never waits
PauseWaitOverAtOnce(timer, from_sd) == TRUE

\* do_pause stops waiting: the dispatcher has gone, or the call is made
\* from a line of the stream
PauseWaitOver(timer, from_sd) == ~timer \/ from_sd

\* the record of a return of work_handler
ExitRecord(how, state, noted, kept) ==
    [how |-> how, state |-> state, noted |-> noted, docs_kept |-> kept]

\* an anomaly (instruction error, I/O failure) can still happen
Anomaly == n_errors < MaxErrors /\ Events < MaxEvents

\* cmd_SDCARD_PRINT_FILE: _reset_file (print_stats.reset, exit_to_idle),
\* rm_power_loss_info, _load_file, do_resume
DispPrintFile ==
    /\ Ready /\ ~work_timer /\ caller = "none"
    /\ n_prints < MaxPrints /\ Events < MaxEvents
    /\ n_prints' = n_prints + 1
    /\ ExitToIdle
    /\ current_file' = TRUE /\ file_position' = 0
    /\ print_stats_state' = "standby" /\ print_start_time' = FALSE
    /\ must_pause_work' = FALSE /\ work_timer' = TRUE /\ wh' = "registered"
    /\ stopped_at' = NONE
    /\ pause_ret' = NoPauseReturn /\ wh_exit' = NoExit /\ cancel_done' = FALSE
    /\ err_log' = NoError
    /\ UNCHANGED <<next_file_position, cmd_from_sd, n_errors, sd_paused, caller>>
    /\ UNCHANGED disp_static

\* do_resume from M24 or, when pause_resume holds sd_paused, from RESUME
DispResume ==
    /\ Ready /\ ~work_timer /\ current_file /\ caller = "none"
    /\ \E by_resume \in BOOLEAN :
         /\ by_resume => sd_paused
         /\ sd_paused' = (sd_paused /\ ~by_resume)
    /\ must_pause_work' = FALSE /\ work_timer' = TRUE /\ wh' = "registered"
    /\ UNCHANGED <<current_file, file_position, next_file_position, cmd_from_sd,
                   print_stats_state, stopped_at, n_errors, n_prints,
                   print_start_time, caller, pause_ret, wh_exit, cancel_done,
                   err_log>>
    /\ UNCHANGED <<idle_vars, disp_static>>

\* work_handler up to its loop: seek, SET_MAIN_STATE PRINTING, note_start
DispWorkHandlerStart ==
    /\ wh = "registered"
    /\ wh' = "loop"
    /\ main_state' = "PRINTING"
    /\ print_stats_state' = "printing" /\ print_start_time' = TRUE
    /\ wh_exit' = NoExit
    /\ UNCHANGED <<current_file, file_position, next_file_position, work_timer,
                   must_pause_work, cmd_from_sd, stopped_at, n_errors, n_prints,
                   sd_paused, caller, pause_ret, cancel_done, err_log>>
    /\ UNCHANGED <<idle_vars_but_main, disp_static>>

\* work_handler: the seek to file_position fails, or SET_MAIN_STATE raises:
\* work_timer = None, return
DispStartFails ==
    /\ wh = "registered" /\ Anomaly
    /\ n_errors' = n_errors + 1
    /\ err_log' = log_exception
    /\ wh' = "none" /\ work_timer' = FALSE
    /\ \E how \in {"seek_failed", "main_state_failed"} :
         wh_exit' = ExitRecord(how, print_stats_state, FALSE, TRUE)
    /\ UNCHANGED <<current_file, file_position, next_file_position,
                   must_pause_work, cmd_from_sd, print_stats_state, stopped_at,
                   n_prints, print_start_time, sd_paused, caller, pause_ret,
                   cancel_done>>
    /\ UNCHANGED <<idle_vars, disp_static>>

\* M25 or PAUSE from another command source while the dispatcher is
\* active: do_pause sets the flag and starts to wait
DispPauseCall ==
    /\ Ready /\ caller = "none"
    /\ work_timer /\ wh \in {"registered", "loop"}
    /\ must_pause_work' = TRUE
    /\ caller' = "do_pause"
    /\ \E by_pause \in BOOLEAN : sd_paused' = (sd_paused \/ by_pause)
    /\ UNCHANGED <<current_file, file_position, next_file_position, work_timer, wh,
                   cmd_from_sd, print_stats_state, stopped_at, n_errors, n_prints,
                   print_start_time, pause_ret, wh_exit, cancel_done, err_log>>
    /\ UNCHANGED <<idle_vars, disp_static>>

\* the wait of that do_pause ends and the command returns
DispPauseReturn ==
    /\ caller = "do_pause"
    /\ PauseWaitOver(work_timer, cmd_from_sd)
    /\ caller' = "none"
    /\ pause_ret' = [src |-> "outside", active |-> work_timer]
    /\ UNCHANGED <<current_file, file_position, next_file_position, work_timer, wh,
                   must_pause_work, cmd_from_sd, print_stats_state, stopped_at,
                   n_errors, n_prints, print_start_time, sd_paused, wh_exit,
                   cancel_done, err_log>>
    /\ UNCHANGED <<idle_vars, disp_static>>

\* the loop finds must_pause_work set and work_handler returns: note_pause
\* while a file is open, note_complete and exit_to_idle when a cancel in
\* the stream has closed it
DispLoopExit ==
    /\ wh = "loop" /\ must_pause_work
    /\ wh' = "none" /\ work_timer' = FALSE /\ cmd_from_sd' = FALSE
    /\ IF current_file
       THEN /\ print_stats_state' = note_pause(print_stats_state)
            /\ wh_exit' = ExitRecord("pause", note_pause(print_stats_state), TRUE, TRUE)
            /\ UNCHANGED <<print_start_time, idle_vars>>
       ELSE /\ print_stats_state' = note_finish(print_stats_state, print_start_time,
                                                "complete")
            /\ print_start_time' = FALSE
            /\ ExitToIdle
            /\ wh_exit' = ExitRecord("cancelled",
                             note_finish(print_stats_state, print_start_time, "complete"),
                             TRUE, rm_power_loss_info(Docs, in_shutdown_state) = Docs)
    /\ UNCHANGED <<current_file, file_position, next_file_position,
                   must_pause_work, stopped_at, n_errors, n_prints, sd_paused,
                   caller, pause_ret, cancel_done, err_log>>
    /\ UNCHANGED disp_static

\* the loop reads end of file: note_complete, exit_to_idle
DispEOF ==
    /\ wh = "loop" /\ ~must_pause_work /\ current_file
    /\ file_position >= FileLen
    /\ ExitToIdle
    /\ current_file' = FALSE
    /\ wh' = "none" /\ work_timer' = FALSE /\ cmd_from_sd' = FALSE
    /\ print_stats_state' = note_finish(print_stats_state, print_start_time, "complete")
    /\ print_start_time' = FALSE
    /\ wh_exit' = ExitRecord("eof",
                     note_finish(print_stats_state, print_start_time, "complete"),
                     TRUE, rm_power_loss_info(Docs, in_shutdown_state) = Docs)
    /\ UNCHANGED <<file_position, next_file_position, must_pause_work, stopped_at,
                   n_errors, n_prints, sd_paused, caller, pause_ret, cancel_done,
                   err_log>>
    /\ UNCHANGED disp_static

\* the read of the next block fails: the loop breaks without an error
\* message, the file is open, note_pause
DispReadFails ==
    /\ wh = "loop" /\ ~must_pause_work /\ current_file /\ Anomaly
    /\ n_errors' = n_errors + 1
    /\ err_log' = log_exception
    /\ wh' = "none" /\ work_timer' = FALSE /\ cmd_from_sd' = FALSE
    /\ print_stats_state' = note_pause(print_stats_state)
    /\ wh_exit' = ExitRecord("read_failed", note_pause(print_stats_state), TRUE, TRUE)
    /\ UNCHANGED <<current_file, file_position, next_file_position,
                   must_pause_work, stopped_at, n_prints, print_start_time,
                   sd_paused, caller, pause_ret, cancel_done>>
    /\ UNCHANGED <<idle_vars, disp_static>>

\* the line in execution
CurrentLine == job[exec_pos + 1]

\* cmd_M25 run from the stream: do_pause sets the flag and returns at once
DispStreamM25 ==
    /\ wh = "exec" /\ CurrentLine = "M25" /\ ~must_pause_work
    /\ PauseWaitOver(work_timer, cmd_from_sd)
    /\ must_pause_work' = TRUE
    /\ pause_ret' = [src |-> "stream", active |-> work_timer]
    /\ UNCHANGED <<current_file, file_position, next_file_position, work_timer, wh,
                   cmd_from_sd, print_stats_state, stopped_at, n_errors, n_prints,
                   print_start_time, sd_paused, caller, wh_exit, cancel_done,
                   err_log>>
    /\ UNCHANGED <<idle_vars, disp_static>>

\* cmd_CANCEL_PRINT run from the stream: do_cancel (do_pause, close,
\* note_cancel, exit_to_idle, file_position = 0)
DispStreamCancel ==
    /\ wh = "exec" /\ CurrentLine = "CANCEL_PRINT" /\ current_file
    /\ PauseWaitOver(work_timer, cmd_from_sd)
    /\ must_pause_work' = TRUE
    /\ pause_ret' = [src |-> "stream", active |-> work_timer]
    /\ current_file' = FALSE
    /\ print_stats_state' = note_finish(print_stats_state, print_start_time, "cancelled")
    /\ print_start_time' = FALSE
    /\ ExitToIdle
    /\ file_position' = 0
    /\ cancel_done' = TRUE
    /\ UNCHANGED <<next_file_position, work_timer, wh, cmd_from_sd, stopped_at,
                   n_errors, n_prints, sd_paused, caller, wh_exit, err_log>>
    /\ UNCHANGED disp_static

\* a command of the stream calls set_file_position with another offset
DispStreamSeek ==
    /\ wh = "exec" /\ CurrentLine = "SEEK"
    /\ next_file_position = exec_pos + 1
    /\ \E pos \in (exec_pos + 2) .. FileLen : next_file_position' = pos
    /\ UNCHANGED <<current_file, file_position, work_timer, wh, must_pause_work,
                   cmd_from_sd, print_stats_state, stopped_at, n_errors, n_prints,
                   print_start_time, sd_paused, caller, pause_ret, wh_exit,
                   cancel_done, err_log>>
    /\ UNCHANGED <<idle_vars, disp_static>>

\* the handler of the line in execution has done its work
LineHandled ==
    \/ CurrentLine \notin STREAM_COMMANDS
    \/ CurrentLine = "M25" /\ must_pause_work
    \/ CurrentLine = "CANCEL_PRINT" /\ ~current_file
    \/ CurrentLine = "SEEK" /\ next_file_position # exec_pos + 1

\* run_script returned (and the seek after a set_file_position worked)
DispExecOk == wh = "exec" /\ LineHandled /\ ExecOk

\* the seek after a set_file_position fails: work_timer = None,
\* exit_to_idle, return
DispReseekFails ==
    /\ wh = "exec" /\ CurrentLine = "SEEK" /\ next_file_position # exec_pos + 1
    /\ Anomaly
    /\ n_errors' = n_errors + 1
    /\ err_log' = log_exception
    /\ file_position' = next_file_position
    /\ wh' = "none" /\ work_timer' = FALSE /\ cmd_from_sd' = FALSE
    /\ ExitToIdle
    /\ wh_exit' = ExitRecord("reseek_failed", print_stats_state, FALSE,
                             rm_power_loss_info(Docs, in_shutdown_state) = Docs)
    /\ UNCHANGED <<current_file, next_file_position, must_pause_work,
                   print_stats_state, stopped_at, n_prints, print_start_time,
                   sd_paused, caller, pause_ret, cancel_done>>
    /\ UNCHANGED disp_static

\* a dispatcher that stays on a line whose error it swallowed
PositionKept(fp, nfp) == fp

\* after the line: file_position = next_file_position
PositionAfterLine(fp, nfp) == nfp

\* the line raised an error whose action is 'none': swallowed, the stream
\* goes on with the next line
DispErrorNone ==
    /\ wh = "exec" /\ CurrentLine \notin STREAM_COMMANDS /\ Anomaly
    /\ n_errors' = n_errors + 1
    /\ err_log' = respond_error("none")
    /\ wh' = "loop" /\ cmd_from_sd' = FALSE
    /\ file_position' = PositionAfterLine(file_position, next_file_position)
    /\ stopped_at' = NONE
    /\ UNCHANGED <<current_file, next_file_position, work_timer, must_pause_work,
                   print_stats_state, n_prints, print_start_time, sd_paused,
                   caller, pause_ret, wh_exit, cancel_done>>
    /\ UNCHANGED <<idle_vars, disp_static>>

\* the line raised an error whose action is 'pause' or 'pause_runout' and
\* the PAUSE script ran (send_pause_command, do_pause from the stream): the
\* loop breaks, note_pause
DispErrorPause ==
    /\ wh = "exec" /\ CurrentLine \notin STREAM_COMMANDS /\ Anomaly
    /\ n_errors' = n_errors + 1
    /\ \E tag \in PAUSE_ACTIONS : err_log' = respond_error(tag)
    /\ sd_paused' = TRUE
    /\ must_pause_work' = TRUE
    /\ pause_ret' = [src |-> "stream", active |-> work_timer]
    /\ wh' = "none" /\ work_timer' = FALSE /\ cmd_from_sd' = FALSE
    /\ print_stats_state' = note_pause(print_stats_state)
    /\ stopped_at' = exec_pos
    /\ wh_exit' = ExitRecord("error_pause", note_pause(print_stats_state), TRUE, TRUE)
    /\ UNCHANGED <<current_file, file_position, next_file_position, n_prints,
                   print_start_time, caller, cancel_done>>
    /\ UNCHANGED <<idle_vars, disp_static>>

\* the same error, but the PAUSE script raises: the action becomes
\* 'cancel', note_error, exit_to_idle
DispPauseScriptFails ==
    /\ wh = "exec" /\ CurrentLine \notin STREAM_COMMANDS /\ Anomaly
    /\ n_errors' = n_errors + 1
    /\ \E tag \in PAUSE_ACTIONS : err_log' = respond_error(tag)
    /\ wh' = "none" /\ work_timer' = FALSE /\ cmd_from_sd' = FALSE
    /\ print_stats_state' = note_finish(print_stats_state, print_start_time, "error")
    /\ print_start_time' = FALSE
    /\ ExitToIdle
    /\ stopped_at' = exec_pos
    /\ wh_exit' = ExitRecord("pause_script_failed",
                     note_finish(print_stats_state, print_start_time, "error"),
                     TRUE, rm_power_loss_info(Docs, in_shutdown_state) = Docs)
    /\ UNCHANGED <<current_file, file_position, next_file_position,
                   must_pause_work, n_prints, sd_paused, caller, pause_ret,
                   cancel_done>>
    /\ UNCHANGED disp_static

\* the line raised an error with any other action: on_error_gcode, the
\* loop breaks, note_error, exit_to_idle
DispErrorFatal ==
    /\ wh = "exec" /\ CurrentLine \notin STREAM_COMMANDS /\ Anomaly
    /\ n_errors' = n_errors + 1
    /\ err_log' = respond_error("cancel")
    /\ wh' = "none" /\ work_timer' = FALSE /\ cmd_from_sd' = FALSE
    /\ print_stats_state' = note_finish(print_stats_state, print_start_time, "error")
    /\ print_start_time' = FALSE
    /\ ExitToIdle
    /\ stopped_at' = exec_pos
    /\ wh_exit' = ExitRecord("error_fatal",
                     note_finish(print_stats_state, print_start_time, "error"),
                     TRUE, rm_power_loss_info(Docs, in_shutdown_state) = Docs)
    /\ UNCHANGED <<current_file, file_position, next_file_position,
                   must_pause_work, n_prints, sd_paused, caller, pause_ret,
                   cancel_done>>
    /\ UNCHANGED disp_static

\* the line raised an exception that is no command error (and whose action
\* is not 'none'): the bare except breaks the loop without an error
\* message, the file is open, note_pause
DispException ==
    /\ wh = "exec" /\ CurrentLine \notin STREAM_COMMANDS /\ Anomaly
    /\ n_errors' = n_errors + 1
    /\ wh' = "none" /\ work_timer' = FALSE /\ cmd_from_sd' = FALSE
    /\ print_stats_state' = note_pause(print_stats_state)
    /\ stopped_at' = exec_pos
    /\ err_log' = log_exception
    /\ wh_exit' = ExitRecord("exception", note_pause(print_stats_state), TRUE, TRUE)
    /\ UNCHANGED <<current_file, file_position, next_file_position,
                   must_pause_work, n_prints, print_start_time, sd_paused,
                   caller, pause_ret, cancel_done>>
    /\ UNCHANGED <<idle_vars, disp_static>>

\* cmd_CANCEL_PRINT from another command source, accepted while the
\* dispatcher is active or sd_paused is set: do_cancel up to the wait of
\* its do_pause
DispCancelCall ==
    /\ Ready /\ caller = "none" /\ wh # "exec"
    /\ work_timer \/ sd_paused
    /\ caller' = "do_cancel"
    /\ must_pause_work' = (must_pause_work \/ (current_file /\ work_timer))
    /\ UNCHANGED <<current_file, file_position, next_file_position, work_timer, wh,
                   cmd_from_sd, print_stats_state, stopped_at, n_errors, n_prints,
                   print_start_time, sd_paused, pause_ret, wh_exit, cancel_done,
                   err_log>>
    /\ UNCHANGED <<idle_vars, disp_static>>

\* do_cancel after its do_pause: close, note_cancel, exit_to_idle,
\* file_position = file_size = 0
DispCancelFinish ==
    /\ caller = "do_cancel"
    /\ current_file => PauseWaitOver(work_timer, cmd_from_sd)
    /\ caller' = "none"
    /\ file_position' = 0
    /\ IF current_file
       THEN /\ pause_ret' = [src |-> "outside", active |-> work_timer]
            /\ current_file' = FALSE
            /\ print_stats_state' = note_finish(print_stats_state, print_start_time,
                                                "cancelled")
            /\ print_start_time' = FALSE
            /\ ExitToIdle
            /\ cancel_done' = TRUE
       ELSE UNCHANGED <<pause_ret, current_file, print_stats_state, print_start_time,
                        idle_vars, cancel_done>>
    /\ UNCHANGED <<next_file_position, work_timer, wh, must_pause_work, cmd_from_sd,
                   stopped_at, n_errors, n_prints, sd_paused, wh_exit, err_log>>
    /\ UNCHANGED disp_static

NextDisp ==
    \/ handle_get_mcu_pl_flash_data
    \/ DispPrintFile
    \/ DispResume
    \/ DispWorkHandlerStart
    \/ DispStartFails
    \/ DispPauseCall
    \/ DispPauseReturn
    \/ DispLoopExit
    \/ DispEOF
    \/ DispReadFails
    \/ DispatchBegin
    \/ HwCommit
    \/ DispStreamM25
    \/ DispStreamCancel
    \/ DispStreamSeek
    \/ DispExecOk
    \/ DispReseekFails
    \/ DispErrorNone
    \/ DispErrorPause
    \/ DispPauseScriptFails
    \/ DispErrorFatal
    \/ DispException
    \/ DispCancelCall
    \/ DispCancelFinish

\* ========================================================================
\* The read loop of work_handler over the bytes of the job file
\* ========================================================================
\* size of the block read at once (8192 in the code), scaled down
BlockSize == 3
\* set_file_position calls explored per behaviour
MaxSeeks == 2

NL == "\n"
\* the job file as bytes: the lines "a", "bb", "" and "c"
SeekFile == <<"a", NL, "b", "b", NL, NL, "c", NL>>
\* the same file with a last line "d" that no terminator follows, when
\* open_end is set
JobBytes == IF rd.open_end THEN SeekFile \o <<"d">> ELSE SeekFile
SeekOffsets == 0 .. Len(JobBytes)

\* data.split('\n'): the pieces between the terminators, the last piece
\* being what follows the last terminator
RECURSIVE SplitNL(_, _)
SplitNL(data, piece) ==
    IF data = <<>> THEN <<piece>>
    ELSE IF Head(data) = NL
         THEN <<piece>> \o SplitNL(Tail(data), <<>>)
         ELSE SplitNL(Tail(data), Append(piece, Head(data)))

\* current_file.read(n) at file pointer pos
ReadBlock(pos, n) ==
    SubSeq(JobBytes, pos + 1, IF pos + n > Len(JobBytes) THEN Len(JobBytes) ELSE pos + n)

\* the text that begins at an offset of the file and ends before the next
\* terminator
RECURSIVE LineAt(_)
LineAt(pos) ==
    IF pos >= Len(JobBytes) \/ JobBytes[pos + 1] = NL THEN <<>>
    ELSE <<JobBytes[pos + 1]>> \o LineAt(pos + 1)

\* a loop that keeps its buffered lines across a seek
BufferKeptOnSeek(buffered) == buffered
\* after the seek: lines = [] and partial_input = ""
BufferAfterSeek(buffered) == <<>>

NoRead == [pc |-> "off", os_pos |-> 0, buf |-> <<>>, partial |-> <<>>,
           file_position |-> 0, next_file_position |-> 0, local_next |-> 0,
           line |-> <<>>, sought |-> NONE, dropped |-> FALSE, after_seek |-> NONE,
           seeks |-> 0, ret |-> "-", open_end |-> FALSE, clean |-> TRUE,
           sent |-> <<>>]
SeekOff == rd = NoRead

\* work_handler has opened its loop on the file at offset 0: seek, lines = [],
\* partial_input = ""
SeekStart == \E open_end \in BOOLEAN :
                 rd = [NoRead EXCEPT !.pc = "loop", !.open_end = open_end]

\* the loop has no buffered line: read a block; no data is the end of the
\* file; otherwise split, keep the trailing fragment
RdRead ==
    /\ rd.pc = "loop" /\ rd.buf = <<>>
    /\ LET data == ReadBlock(rd.os_pos, BlockSize)
           pieces == SplitNL(data, <<>>)
           joined == [pieces EXCEPT ![1] = rd.partial \o pieces[1]]
       IN IF data = <<>>
          THEN rd' = [rd EXCEPT !.pc = "done"]
          ELSE rd' = [rd EXCEPT !.os_pos = rd.os_pos + Len(data),
                                !.buf = SubSeq(joined, 1, Len(joined) - 1),
                                !.partial = joined[Len(joined)]]

\* dispatch of the next buffered line: next_file_position
RdDispatch ==
    /\ rd.pc = "loop" /\ rd.buf # <<>>
    /\ LET line == Head(rd.buf)
           nfp == rd.file_position + Len(line) + 1
       IN rd' = [rd EXCEPT !.pc = "exec", !.buf = Tail(rd.buf), !.line = line,
                           !.local_next = nfp, !.next_file_position = nfp,
                           !.after_seek = rd.sought, !.sought = NONE,
                           !.ret = "-",
                           !.sent = IF rd.clean THEN Append(rd.sent, line)
                                    ELSE <<>>]

\* the handler of the line in execution calls set_file_position
RdSetFilePosition ==
    /\ rd.pc = "exec" /\ rd.seeks < MaxSeeks
    /\ \E pos \in SeekOffsets :
         rd' = [rd EXCEPT !.next_file_position = pos, !.seeks = rd.seeks + 1,
                          !.clean = FALSE, !.sent = <<>>]

\* run_script returned: file_position = next_file_position; when the
\* handler moved it, seek there and drop what was buffered
RdLineDone ==
    /\ rd.pc = "exec"
    /\ IF rd.next_file_position # rd.local_next
       THEN rd' = [rd EXCEPT !.pc = "loop", !.ret = "returned",
                             !.file_position = rd.next_file_position,
                             !.os_pos = rd.next_file_position,
                             !.buf = BufferAfterSeek(rd.buf),
                             !.partial = BufferAfterSeek(rd.partial),
                             !.sought = rd.next_file_position,
                             !.dropped = (rd.buf # <<>> \/ rd.partial # <<>>)]
       ELSE rd' = [rd EXCEPT !.pc = "loop", !.ret = "returned",
                             !.file_position = rd.next_file_position]

\* the line raised an error whose action is not 'none': the loop breaks
\* before file_position is assigned; after a pausing error do_resume enters
\* work_handler again at file_position, after a fatal one the stream ends
RdLineFails ==
    /\ rd.pc = "exec"
    /\ \E resumable \in BOOLEAN :
         rd' = [rd EXCEPT !.pc = IF resumable THEN "loop" ELSE "done",
                          !.ret = "raised",
                          !.os_pos = rd.file_position,
                          !.buf = <<>>, !.partial = <<>>,
                          !.clean = FALSE, !.sent = <<>>]

\* the loop leaves for a pause and work_handler is entered again by
\* do_resume: seek to file_position with an empty buffer
RdReenter ==
    /\ rd.pc = "loop"
    /\ rd' = [rd EXCEPT !.os_pos = rd.file_position, !.buf = <<>>, !.partial = <<>>,
                        !.clean = FALSE, !.sent = <<>>]

seek_rest == <<store_vars, select_vars, job_vars, replay_vars, live_vars, cmd_vars,
               disp_vars, orc, js, rg, flow, orch, trk>>

NextSeek ==
    \/ (RdRead /\ UNCHANGED seek_rest)
    \/ (RdDispatch /\ UNCHANGED seek_rest)
    \/ (RdSetFilePosition /\ UNCHANGED seek_rest)
    \/ (RdLineDone /\ UNCHANGED seek_rest)
    \/ (RdLineFails /\ UNCHANGED seek_rest)
    \/ (RdReenter /\ UNCHANGED seek_rest)

\* ========================================================================
\* The hardware progress oracle
\* ========================================================================
\* power_loss_check peripherals attached
MaxPeripherals == 2
\* largest committed line a peripheral reports
MaxOracleLine == 2

Peripherals == 1 .. MaxPeripherals
\* the steppers the peripherals keep a record for, in the order of the
\* dictionary
OracleKeys == <<"stepper_x", "stepper_z">>
OracleFlags == {1, 2}
OraclePositions == {NONE, 7}
\* a stepper's record: the peripheral that holds it (0: no peripheral
\* does), the committed line and the stepper position in ticks
OracleEntries == [owner : {0} \cup Peripherals,
                  line : {NONE} \cup (1 .. MaxOracleLine),
                  position : OraclePositions]
NoEntry == [owner |-> 0, line |-> NONE, position |-> NONE]

\* power_loss_info_check: (False, None) without the file-identity
\* document; otherwise the records of the peripherals whose flag in flash
\* equals the document's env_flag, merged peripheral by peripheral
RECURSIVE save_stepper_info(_, _, _, _)
save_stepper_info(file_flag, flags, entries, p) ==
    IF p > MaxPeripherals THEN <<>>
    ELSE (IF flags[p] # NONE /\ flags[p] = file_flag
          THEN SelectSeq(OracleKeys, LAMBDA k : entries[k].owner = p)
          ELSE <<>>)
         \o save_stepper_info(file_flag, flags, entries, p + 1)

power_loss_info_check(file_flag, flags, entries) ==
    IF file_flag = NONE THEN [ok |-> FALSE, keys |-> <<>>]
    ELSE [ok |-> TRUE, keys |-> save_stepper_info(file_flag, flags, entries, 1)]

\* an oracle that keeps the line it saw first
FirstLine(valid_line, line) == valid_line
\* the comparison in the loop of _update_mcu_flash_valid_line
LargerLine(valid_line, line) == IF valid_line < line THEN line ELSE valid_line

\* the loop of _update_mcu_flash_valid_line over the merged records
RECURSIVE UpdateLoop(_, _, _)
UpdateLoop(keys, entries, acc) ==
    IF keys = <<>> THEN acc
    ELSE LET e == entries[Head(keys)]
             next == IF e.line = NONE THEN acc
                     ELSE [valid_line |-> IF acc.valid_line = NONE THEN e.line
                                          ELSE LargerLine(acc.valid_line, e.line),
                           stepper_z_pos |-> IF Head(keys) = "stepper_z"
                                             THEN e.position
                                             ELSE acc.stepper_z_pos]
         IN UpdateLoop(Tail(keys), entries, next)

NoReading == [valid_line |-> NONE, stepper_z_pos |-> NONE]

update_mcu_flash_valid_line(file_flag, flags, entries) ==
    LET pl_check == power_loss_info_check(file_flag, flags, entries)
    IN IF pl_check.ok THEN UpdateLoop(pl_check.keys, entries, NoReading)
       ELSE NoReading

NoOracle == [pc |-> "off", file_flag |-> NONE,
             flags |-> [p \in Peripherals |-> NONE],
             entries |-> [k \in {"stepper_x", "stepper_z"} |-> NoEntry],
             out |-> NoReading]
OracleOff == orc = NoOracle

\* after a restart: some file-identity document (or none), each peripheral
\* with the flag of its flash record (or none), each stepper's record held
\* by at most one peripheral
OracleStart ==
    \E ff \in {NONE} \cup OracleFlags,
       fl \in [Peripherals -> {NONE} \cup OracleFlags],
       en \in [{"stepper_x", "stepper_z"} -> OracleEntries] :
        /\ \A k \in {"stepper_x", "stepper_z"} : en[k].owner = 0 => en[k] = NoEntry
        /\ orc = [pc |-> "start", file_flag |-> ff, flags |-> fl, entries |-> en,
                  out |-> NoReading]

OracleUpdate ==
    /\ orc.pc = "start"
    /\ orc' = [orc EXCEPT !.pc = "read",
                          !.out = update_mcu_flash_valid_line(orc.file_flag, orc.flags,
                                                              orc.entries)]
    /\ UNCHANGED <<store_vars, select_vars, job_vars, replay_vars, live_vars,
                   cmd_vars, disp_vars, rd, js, rg, flow, orch, trk>>

NextOracle == OracleUpdate

\* ========================================================================
\* The dispatcher's checkpoint writes at job start next to the store
\* ========================================================================
\* a record_pl_print_* call that asks for a synchronous write
SyncRequested == TRUE
\* sync=False in the signatures of record_pl_print_file_env and of the
\* record_pl_print_* functions flush_pl_print_env calls; record_power_loss_info
\* passes no sync argument
SyncDefault == FALSE

NoJobWrites == [pc |-> "off", lines |-> 0, start_data |-> EmptyKV,
                ran |-> FALSE, durable |-> FALSE]
JobWritesOff == js = NoJobWrites
\* the work loop of a job that has dispatched no line yet
JobWritesStart == js = [NoJobWrites EXCEPT !.pc = "loop"]

\* the document on disk holds what a write gave
OnDisk(data) ==
    /\ disk_doc.st = "whole"
    /\ \A k \in Keys : data[k] # 0 => disk_doc.kv[k] = data[k]

\* dispatch of a line up to run_script: lines += 1, record_power_loss_info;
\* at pl_notify_start_line the hardware is armed and the documents of the
\* job start are written (here the temperature document of
\* flush_pl_print_env)
JsDispatch ==
    /\ js.pc = "loop" /\ js.lines < FileLen /\ proc_alive
    /\ IF js.lines + 1 = pl_start_save_line
       THEN \E k \in Keys, v \in Vals :
              LET data == [j \in Keys |-> IF j = k THEN v ELSE 0]
              IN /\ save_environment_data(data, SyncDefault)
                 /\ js' = [js EXCEPT !.pc = "exec", !.lines = js.lines + 1,
                                     !.start_data = data]
       ELSE /\ js' = [js EXCEPT !.pc = "exec", !.lines = js.lines + 1]
            /\ UNCHANGED store_vars

\* run_script of the dispatched line, once the write calls have returned
JsExec ==
    /\ js.pc = "exec" /\ ~caller_blocked /\ proc_alive
    /\ js' = [js EXCEPT !.pc = "loop",
                        !.ran = js.ran \/ js.lines = pl_start_save_line,
                        !.durable = IF js.lines = pl_start_save_line
                                    THEN OnDisk(js.start_data) ELSE js.durable]
    /\ UNCHANGED store_vars

\* a periodic update from a heater while a later line executes
JsInStreamUpdate ==
    /\ js.pc = "exec" /\ js.lines > pl_start_save_line
    /\ RecordTemperature
    /\ UNCHANGED js

job_writes_rest == <<select_vars, job_vars, replay_vars, live_vars, cmd_vars,
                     disp_vars, rd, orc, rg, flow, orch, trk>>

NextJobWrites ==
    \/ (JsDispatch /\ UNCHANGED job_writes_rest)
    \/ (JsExec /\ UNCHANGED job_writes_rest)
    \/ (JsInStreamUpdate /\ UNCHANGED job_writes_rest)
    \/ (BgTake /\ UNCHANGED <<job_writes_rest, js>>)
    \/ (BgWrite /\ UNCHANGED <<job_writes_rest, js>>)
    \/ (BgRename /\ UNCHANGED <<job_writes_rest, js>>)

\* ========================================================================
\* The slot files of the move-checkpoint ring as dictionaries
\* ========================================================================
MaxRingLines == 5
RingLines == {"G28", "G1"}
\* the file name of a slot is made from an index: any index names a file
RingFiles == 0 .. MaxRingLines
\* the keys of the dictionary record_pl_print_file_move_env builds (of the
\* fifteen, the ones that tell two records apart)
MoveKeys == {"file_pos", "line_count", "line", "homing_stepper_z_info"}
\* homing_xyz_override.homing_stepper_z_info: None or a reference
ZInfos == {NONE, 7}

NoFile == [keys |-> {}, file_pos |-> 0, line_count |-> 0, line |-> "-",
           homing_stepper_z_info |-> NONE]

\* existing_data.update(data_dict): a key of data_dict takes its value,
\* any other key of the file read keeps the old one
existing_data_update(existing, data) ==
    [keys |-> existing.keys \cup data.keys,
     file_pos |-> IF "file_pos" \in data.keys
                  THEN data.file_pos ELSE existing.file_pos,
     line_count |-> IF "line_count" \in data.keys
                    THEN data.line_count ELSE existing.line_count,
     line |-> IF "line" \in data.keys THEN data.line ELSE existing.line,
     homing_stepper_z_info |-> IF "homing_stepper_z_info" \in data.keys
                               THEN data.homing_stepper_z_info
                               ELSE existing.homing_stepper_z_info]

\* the index left to grow
NextIndexUnbounded(i) == i + 1
\* (self.current_file_index + 1) % self.max_file_count
NextIndex(i) == (i + 1) % max_file_count

NoRingWrite == [index |-> NONE, before |-> NoFile, data |-> NoFile]
NoRing == [pc |-> "off", lines |-> 0, file_position |-> 0, homed |-> FALSE,
           pl_next_save_line |-> 0, current_file_index |-> 0,
           files |-> [i \in RingFiles |-> NoFile], last |-> NoRingWrite,
           pl_switch |-> FALSE, armed |-> FALSE, file_env |-> FALSE]
RingOff == rg = NoRing
\* a job that starts: no slot file, the schedule at pl_start_save_line;
\* pl_switch is True when the configuration has a power_loss_check section
RingStart ==
    \E sw \in BOOLEAN :
        rg = [NoRing EXCEPT !.pc = "loop", !.pl_switch = sw,
                            !.pl_next_save_line = pl_start_save_line]

\* a line of the job runs: lines += 1, record_power_loss_info (arm command
\* and file-identity document at pl_notify_start_line), run_script,
\* record_pl_print_file_move_env(line, self.lines, self.file_position),
\* then file_position advances
RgLine ==
    /\ rg.pc = "loop" /\ rg.lines < MaxRingLines
    /\ \E line \in RingLines, z \in ZInfos :
         LET n == rg.lines + 1
             homed_after == rg.homed \/ line = "G28"
             need_save == ((rg.pl_switch /\ n >= rg.pl_next_save_line)
                           \/ line = "G28")
                          /\ homed_after
             arm == rg.pl_switch /\ n = pl_start_save_line
             data == [keys |-> MoveKeys, file_pos |-> rg.file_position,
                      line_count |-> n, line |-> line,
                      homing_stepper_z_info |-> z]
             i == rg.current_file_index
         IN rg' = IF need_save
                  THEN [rg EXCEPT
                          !.lines = n, !.homed = homed_after,
                          !.armed = rg.armed \/ arm,
                          !.file_env = rg.file_env \/ arm,
                          !.file_position = rg.file_position + 1,
                          !.pl_next_save_line = rg.pl_next_save_line
                                                + pl_save_line_interval,
                          !.files[i] = existing_data_update(rg.files[i], data),
                          !.current_file_index = NextIndex(i),
                          !.last = [index |-> i, before |-> rg.files[i],
                                    data |-> data]]
                  ELSE [rg EXCEPT
                          !.lines = n, !.homed = homed_after,
                          !.armed = rg.armed \/ arm,
                          !.file_env = rg.file_env \/ arm,
                          !.file_position = rg.file_position + 1]

ring_rest == <<store_vars, select_vars, job_vars, replay_vars, live_vars,
               cmd_vars, disp_vars, rd, orc, js, flow, orch, trk>>

NextRing == RgLine /\ UNCHANGED ring_rest

\* ========================================================================
\* The E axis of the replay tracker under flow-factor changes
\* ========================================================================
\* Lengths are integers; a factor is held in percent, the S parameter of
\* M221, so that x / factor is (x * 100) \div S and x * factor is
\* (x * S) \div 100.  The field exact records that no division so far left
\* a remainder: the integer results are the exact quotients.
MaxFlowLines == 4
\* the S values of M221 in the replayed lines
FlowFactors == {50, 100, 200}
\* the E values of the G1 lines
FlowMoves == {4, 10}

Over(x, factor) == (x * 100) \div factor
Times(x, factor) == (x * factor) \div 100
OverExact(x, factor) == (x * 100) % factor = 0
TimesExact(x, factor) == (x * factor) % 100 = 0

\* the base offset left as the logical length
KeepLength(e_value, new_extrude_factor) == e_value
\* e_value * new_extrude_factor
ScaleLength(e_value, new_extrude_factor) == Times(e_value, new_extrude_factor)

NoLine221 == [base |-> 0, last |-> 0, extrude_factor |-> 100]
NoFlow == [pc |-> "off", base |-> 0, last |-> 0, extrude_factor |-> 100,
           absolute_extrude |-> TRUE, cmd |-> "-", before |-> NoLine221,
           exact |-> TRUE, n |-> 0]
FlowOff == flow = NoFlow
\* GCodeStateTracker built from a checkpoint with base_position[3] = 10 and
\* last_position[3] = 20; extrude_factor = 1
FlowStart == flow = [NoFlow EXCEPT !.pc = "replay", !.base = 10, !.last = 20]

\* update_position, cmd == 'M221'
FlM221 ==
    /\ flow.pc = "replay" /\ flow.n < MaxFlowLines
    /\ \E S \in FlowFactors :
         LET new_extrude_factor == S
             last_e_pos == flow.last
             e_value == Over(last_e_pos - flow.base, flow.extrude_factor)
         IN flow' = [flow EXCEPT
                     !.base = last_e_pos - ScaleLength(e_value, new_extrude_factor),
                     !.extrude_factor = new_extrude_factor,
                     !.cmd = "M221",
                     !.before = [base |-> flow.base, last |-> flow.last,
                                 extrude_factor |-> flow.extrude_factor],
                     !.exact = /\ flow.exact
                               /\ OverExact(last_e_pos - flow.base, flow.extrude_factor)
                               /\ TimesExact(e_value, new_extrude_factor),
                     !.n = flow.n + 1]

\* update_position, cmd in ('G0', 'G1') with an E parameter
FlG1 ==
    /\ flow.pc = "replay" /\ flow.n < MaxFlowLines
    /\ \E e \in FlowMoves :
         LET v == Times(e, flow.extrude_factor)
         IN flow' = [flow EXCEPT
                     !.last = IF ~flow.absolute_extrude THEN flow.last + v
                              ELSE v + flow.base,
                     !.cmd = "G1",
                     !.exact = flow.exact /\ TimesExact(e, flow.extrude_factor),
                     !.n = flow.n + 1]

\* update_position, cmd == 'M82' or 'M83'
FlExtrudeMode ==
    /\ flow.pc = "replay" /\ flow.n < MaxFlowLines
    /\ \E absolute \in BOOLEAN :
         flow' = [flow EXCEPT !.absolute_extrude = absolute,
                          !.cmd = IF absolute THEN "M82" ELSE "M83",
                          !.n = flow.n + 1]

flow_rest == <<store_vars, select_vars, job_vars, replay_vars, live_vars,
               cmd_vars, disp_vars, rd, orc, js, rg, orch, trk>>

NextFlow ==
    \/ (FlM221 /\ UNCHANGED flow_rest)
    \/ (FlG1 /\ UNCHANGED flow_rest)
    \/ (FlExtrudeMode /\ UNCHANGED flow_rest)

\* ========================================================================
\* restore_print step by step next to the work timer
\* ========================================================================
MaxRestores == 2

\* the statements of restore_print between parse_power_loss_move_env and
\* the test of work_timer, in program order.  phase: the recovery state the
\* statement belongs to; touches: what it changes of the interpreter
\* (toolhead position, gcode_move fields) and of the checkpoint documents;
\* waits: it lets the reactor run other timers
RestoreSteps == <<
    [name |-> "bed_target",       phase |-> "Preflight",
     touches |-> {},              waits |-> FALSE],
    [name |-> "preheat_for_hop",  phase |-> "Preflight",
     touches |-> {},              waits |-> TRUE],
    [name |-> "z_hop",            phase |-> "Homing",
     touches |-> {},              waits |-> FALSE],
    [name |-> "home_x_y",         phase |-> "Homing",
     touches |-> {"toolhead"},    waits |-> TRUE],
    [name |-> "extruder_targets", phase |-> "Preflight",
     touches |-> {},              waits |-> FALSE],
    [name |-> "pressure_advance", phase |-> "Preflight",
     touches |-> {},              waits |-> FALSE],
    [name |-> "fan",              phase |-> "Preflight",
     touches |-> {},              waits |-> FALSE],
    [name |-> "wait_for_targets", phase |-> "Reheat",
     touches |-> {},              waits |-> TRUE],
    [name |-> "set_position_z",   phase |-> "PositionRecovery",
     touches |-> {"toolhead"},    waits |-> FALSE],
    [name |-> "base_position",    phase |-> "PositionRecovery",
     touches |-> {"gcode_move"},  waits |-> FALSE],
    [name |-> "remove_documents", phase |-> "PositionRecovery",
     touches |-> {"documents"},   waits |-> FALSE],
    [name |-> "save_documents",   phase |-> "PositionRecovery",
     touches |-> {"documents"},   waits |-> FALSE],
    [name |-> "pre_extrude",      phase |-> "Purge",
     touches |-> {"gcode_move", "toolhead"}, waits |-> TRUE],
    [name |-> "move_y_x_z",       phase |-> "Reposition",
     touches |-> {"gcode_move", "toolhead"}, waits |-> TRUE],
    [name |-> "gcode_move_fields", phase |-> "Reposition",
     touches |-> {"gcode_move"},  waits |-> FALSE] >>

\* the order of the recovery states
PhaseRank(phase) ==
    CASE phase = "Validating" -> 1
      [] phase = "Locating" -> 2
      [] phase = "Preflight" -> 3
      [] phase = "Homing" -> 4
      [] phase = "PositionRecovery" -> 5
      [] phase = "Reheat" -> 6
      [] phase = "Purge" -> 7
      [] phase = "Reposition" -> 8
      [] phase = "Splice" -> 9
      [] phase = "Running" -> 10

\* power_loss_run_gcode_info of the target line: its command and the keys
\* of its parameters
TargetInfos ==
    {[cmd |-> "G1", params |-> {"X", "E"}], [cmd |-> "G1", params |-> {"Z"}],
     [cmd |-> "G28", params |-> {}], [cmd |-> "G28", params |-> {"Z"}],
     [cmd |-> "G28", params |-> {"X", "Y"}], [cmd |-> "G28", params |-> {"X", "Z"}]}

\* need_restore_z with the Z test alone
need_restore_z_unless_named(info) ==
    ~(info.cmd = "G28" /\ "Z" \in info.params)

\* need_restore_z of restore_print
need_restore_z(info) ==
    ~(info.cmd = "G28"
      /\ ("Z" \in info.params \/ {"X", "Y", "Z"} \cap info.params = {}))

\* the commands a statement of restore_print sends to move or place the head
HeadCommands(name, info) ==
    CASE name = "home_x_y" -> <<"G28 X Y">>
      [] name = "set_position_z" -> <<"set_position Z">>
      [] name = "move_y_x_z" ->
            <<"G0 Y", "G0 X">> \o (IF need_restore_z(info) THEN <<"G0 Z">> ELSE <<>>)
      [] OTHER -> <<>>

NoOrch == [pc |-> "off", step |-> 0, msm |-> FALSE, main_state |-> "IDLE",
           work_timer |-> FALSE, current_file |-> FALSE, shutdown |-> FALSE,
           documents |-> "none", touched |-> {}, busy_touch |-> FALSE,
           log |-> <<>>, outcome |-> "-", n |-> 0,
           target |-> [cmd |-> "-", params |-> {}], moves |-> <<>>]
OrchOff == orch = NoOrch
\* after a start-up that found the recovery data valid: no file loaded, no
\* timer; machine_state_manager configured or not
OrchStart ==
    \E msm \in BOOLEAN :
        orch = [NoOrch EXCEPT !.pc = "idle", !.msm = msm,
                              !.documents = "recorded"]

\* what a statement of restore_print adds to the history
Touch(o, what) ==
    [o EXCEPT !.touched = o.touched \cup what,
              !.busy_touch = o.busy_touch \/ (what # {} /\ o.work_timer)]

\* cmd_M24 -> do_resume: the timer is registered unless one is
OrM24 ==
    /\ orch.pc = "idle" /\ ~orch.shutdown /\ ~orch.work_timer
    /\ orch.n < MaxRestores
    /\ orch' = [orch EXCEPT !.work_timer = TRUE]

\* the timer fires: work_handler.  Without a file the first statement
\* raises outside any try (the timer stays, the printer shuts down); with
\* one, SET_MAIN_STATE PRINTING and the stream of a short file to its end
\* (exit_to_idle)
OrWorkHandler ==
    /\ orch.work_timer /\ ~orch.shutdown
    /\ orch.pc = "idle"
       \/ (orch.pc = "steps" /\ orch.step > 1 /\ RestoreSteps[orch.step - 1].waits)
    /\ orch' = IF orch.current_file
               THEN [orch EXCEPT !.work_timer = FALSE, !.current_file = FALSE,
                                 !.documents = "none",
                                 !.main_state = IF orch.msm THEN "IDLE"
                                                ELSE orch.main_state]
               ELSE [orch EXCEPT !.shutdown = TRUE]

\* cmd_SDCARD_PRINT_PL_RESTORE: refused unless the main state is IDLE when
\* machine_state_manager exists; restore_print: SET_MAIN_STATE PRINTING
OrGate ==
    /\ orch.pc = "idle" /\ ~orch.shutdown /\ orch.n < MaxRestores
    /\ IF orch.msm /\ orch.main_state # "IDLE"
       THEN orch' = [orch EXCEPT !.outcome = "refused", !.n = orch.n + 1]
       ELSE orch' = [orch EXCEPT !.pc = "locate", !.n = orch.n + 1,
                                 !.main_state = IF orch.msm THEN "PRINTING"
                                                ELSE orch.main_state,
                                 !.touched = {}, !.busy_touch = FALSE,
                                 !.outcome = "-", !.moves = <<>>,
                                 !.log = <<"Validating">>]

\* parse_power_loss_move_env: raises when the documents are gone
OrLocate ==
    /\ orch.pc = "locate"
    /\ \E info \in TargetInfos :
        orch' = IF orch.documents = "none"
                THEN [orch EXCEPT !.pc = "except"]
                ELSE [orch EXCEPT !.pc = "steps", !.step = 1, !.target = info,
                                  !.log = Append(orch.log, "Locating")]

\* the next statement of restore_print runs to its end
OrStep ==
    /\ orch.pc = "steps" /\ ~orch.shutdown
    /\ LET st == RestoreSteps[orch.step]
           o == Touch(orch, st.touches)
       IN orch' = [o EXCEPT
                     !.log = Append(orch.log, st.phase),
                     !.moves = orch.moves \o HeadCommands(st.name, orch.target),
                     !.documents = IF st.name = "remove_documents" THEN "none"
                                   ELSE IF st.name = "save_documents"
                                   THEN "rewritten" ELSE orch.documents,
                     !.pc = IF orch.step = Len(RestoreSteps)
                            THEN "busy_check" ELSE "steps",
                     !.step = IF orch.step = Len(RestoreSteps)
                              THEN 0 ELSE orch.step + 1]

\* the next statement raises (always, once the printer is shut down)
OrStepFails ==
    /\ orch.pc = "steps"
    /\ orch' = [orch EXCEPT !.pc = "except", !.step = 0]

\* if self.work_timer is not None: raise "SD busy"
OrBusyCheck ==
    /\ orch.pc = "busy_check"
    /\ orch' = IF orch.work_timer
               THEN [orch EXCEPT !.pc = "except"]
               ELSE [orch EXCEPT !.pc = "splice"]

\* _pl_recovery_reset_file, _load_file, file_position and lines, do_resume
OrSplice ==
    /\ orch.pc = "splice"
    /\ orch' = [orch EXCEPT !.pc = "idle", !.current_file = TRUE,
                            !.work_timer = TRUE, !.outcome = "running",
                            !.moves = Append(orch.moves, "do_resume"),
                            !.log = orch.log \o <<"Splice", "Running">>]

\* the except clause: backup_print_env_info, rm_power_loss_info, disarm,
\* SET_MAIN_STATE IDLE when the state is PRINTING, raise
OrExcept ==
    /\ orch.pc = "except"
    /\ LET o == Touch(orch, {"documents"})
       IN orch' = [o EXCEPT !.pc = "idle", !.documents = "none",
                            !.outcome = "failed",
                            !.main_state = IF orch.msm /\ ~orch.shutdown
                                           THEN "IDLE" ELSE orch.main_state]

orch_rest == <<store_vars, select_vars, job_vars, replay_vars, live_vars,
               cmd_vars, disp_vars, rd, orc, js, rg, flow, trk>>

NextOrch ==
    \/ (OrM24 /\ UNCHANGED orch_rest)
    \/ (OrWorkHandler /\ UNCHANGED orch_rest)
    \/ (OrGate /\ UNCHANGED orch_rest)
    \/ (OrLocate /\ UNCHANGED orch_rest)
    \/ (OrStep /\ UNCHANGED orch_rest)
    \/ (OrStepFails /\ UNCHANGED orch_rest)
    \/ (OrBusyCheck /\ UNCHANGED orch_rest)
    \/ (OrSplice /\ UNCHANGED orch_rest)
    \/ (OrExcept /\ UNCHANGED orch_rest)

\* ========================================================================
\* GCodeStateTracker on the text of the replayed lines
\* ========================================================================
\* number of lines of the replayed text
MaxTrackLines == 2

\* positions, offsets and feed rates are counted in tenths; the numerals of
\* the lines tried have at most one decimal
Tenths == 10

\* a line is the sequence of its words (split at white space), a word the
\* sequence of its characters
TrackLines ==
    { << <<"G","1">>, <<"X","1","0">>, <<"Y","2","0">>, <<"E","1",".","5">>,
         <<"F","1","2","0","0">> >>,
      << <<"G","1">>, <<"Z","2">> >>,
      << <<"G","0">>, <<"X","3">>, <<"F","0">> >>,
      << <<"G","1">>, <<"E","2">> >>,
      << <<"G","2">>, <<"X","4">>, <<"Y","4">>, <<"I","1">> >>,
      << <<"G","9","2">> >>,
      << <<"G","9","2">>, <<"E","1">> >>,
      << <<"G","9","2">>, <<"X","1">>, <<"Z","0">> >>,
      << <<"G","9","1">> >>,
      << <<"M","8","2">> >>,
      << <<";">>, <<"G","1">>, <<"X","7">> >> }
TrackTexts == [1 .. MaxTrackLines -> TrackLines]

\* [A-Z_] and \d of the regular expressions
IsLetter(c) == c \in {"G", "M", "X", "Y", "Z", "E", "F", "I", "J", "_"}
IsDigit(c) == c \in {"0", "1", "2", "3", "4", "5", "6", "7", "8", "9"}
DigitValue(c) ==
    CHOOSE d \in 0 .. 9 :
        <<"0", "1", "2", "3", "4", "5", "6", "7", "8", "9">>[d + 1] = c

\* the end of the run of characters of one class that starts at w[i]
RECURSIVE RunEnd(_, _, _)
RunEnd(w, i, letters) ==
    IF i <= Len(w) /\ (IF letters THEN IsLetter(w[i]) ELSE IsDigit(w[i]))
    THEN RunEnd(w, i + 1, letters) ELSE i - 1

\* ([A-Z_]+)([^=\s]*): the key and the value of a parameter word
KeyOf(w) == SubSeq(w, 1, RunEnd(w, 1, TRUE))
ValOf(w) == SubSeq(w, RunEnd(w, 1, TRUE) + 1, Len(w))

\* the parsed line: {} is NoParse; a value of <<>> is None
NoParse == [cmd |-> <<>>, params |-> [k \in {} |-> <<>>]]

\* _parse_gcode_line: nothing for an empty line or a comment; the text from
\* ';' on is dropped; the command is the leading letters and digits; each
\* following word gives a key and a value, the last word of a key wins
parse_gcode_line(line) ==
    LET cut == {i \in DOMAIN line : line[i] # <<>> /\ line[i][1] = ";"}
        code == IF cut = {} THEN line
                ELSE SubSeq(line, 1, (CHOOSE i \in cut : \A j \in cut : i <= j) - 1)
    IN IF code = <<>> \/ RunEnd(code[1], 1, TRUE) = 0 THEN NoParse
       ELSE LET first == code[1]
                cmd_end == RunEnd(first, RunEnd(first, 1, TRUE) + 1, FALSE)
                rest == SubSeq(first, cmd_end + 1, Len(first))
                words == (IF rest = <<>> THEN <<>> ELSE <<rest>>) \o Tail(code)
                tokens == {i \in DOMAIN words : KeyOf(words[i]) # <<>>}
            IN [cmd |-> SubSeq(first, 1, cmd_end),
                params |-> [k \in {KeyOf(words[i]) : i \in tokens} |->
                              ValOf(words[CHOOSE i \in tokens :
                                             /\ KeyOf(words[i]) = k
                                             /\ \A j \in tokens :
                                                   KeyOf(words[j]) = k => j <= i])]]

\* the value of a run of digits
RECURSIVE DigitsValue(_)
DigitsValue(s) ==
    IF s = <<>> THEN 0
    ELSE DigitsValue(SubSeq(s, 1, Len(s) - 1)) * 10 + DigitValue(s[Len(s)])

\* float() of a decimal numeral, in tenths
float(s) ==
    LET dots == {i \in DOMAIN s : s[i] = "."}
        dot == IF dots = {} THEN Len(s) + 1 ELSE CHOOSE i \in dots : TRUE
        frac == IF dot < Len(s) THEN DigitValue(s[dot + 1]) ELSE 0
    IN DigitsValue(SubSeq(s, 1, dot - 1)) * Tenths + frac

\* params[key], None when key is not in params
ParamOrZero(params, key) == IF key \in DOMAIN params THEN params[key] ELSE <<"0">>
MoveParam(params, key) == IF key \in DOMAIN params THEN params[key] ELSE <<>>

\* "if i == 3: offset *= self.extrude_factor"
G92OffsetUnscaled(offset, i, extrude_factor) == offset
G92Offset(offset, i, extrude_factor) ==
    IF i = 4 THEN offset * extrude_factor ELSE offset

\* 'XYZE'
AxisKey == << <<"X">>, <<"Y">>, <<"Z">>, <<"E">> >>

\* update_position on the text of a line: M82, M83, G90, G91, G92 and the
\* motion commands
update_position_of_text(st, line) ==
    LET parsed == parse_gcode_line(line)
        cmd == parsed.cmd
        params == parsed.params
        val(i) == MoveParam(params, AxisKey[i])
    IN IF parsed = NoParse THEN st
       ELSE IF cmd = <<"M","8","2">> THEN [st EXCEPT !.absolute_extrude = TRUE]
       ELSE IF cmd = <<"M","8","3">> THEN [st EXCEPT !.absolute_extrude = FALSE]
       ELSE IF cmd = <<"G","9","0">> THEN [st EXCEPT !.absolute_coord = TRUE]
       ELSE IF cmd = <<"G","9","1">> THEN [st EXCEPT !.absolute_coord = FALSE]
       ELSE IF cmd = <<"G","9","2">>
       THEN IF \A i \in 1 .. 4 : val(i) = <<>>
            THEN [st EXCEPT !.base_position = st.last_position]
            ELSE [st EXCEPT !.base_position =
                    [i \in 1 .. 4 |->
                       IF val(i) = <<>> THEN st.base_position[i]
                       ELSE st.last_position[i]
                            - G92Offset(float(val(i)), i, st.extrude_factor)]]
       ELSE IF cmd \in {<<"G","0">>, <<"G","1">>}
               \/ (cmd \in {<<"G","2">>, <<"G","3">>} /\ st.absolute_coord)
       THEN LET xyz(pos) ==
                    IF val(pos) = <<>> THEN st.last_position[pos]
                    ELSE IF ~st.absolute_coord
                    THEN st.last_position[pos] + float(val(pos))
                    ELSE float(val(pos)) + st.base_position[pos]
                v == float(val(4)) * st.extrude_factor
                e == IF val(4) = <<>> THEN st.last_position[4]
                     ELSE IF ~st.absolute_coord \/ ~st.absolute_extrude
                     THEN st.last_position[4] + v
                     ELSE v + st.base_position[4]
                F == MoveParam(params, <<"F">>)
            IN [st EXCEPT !.last_position = <<xyz(1), xyz(2), xyz(3), e>>,
                          !.speed = IF F = <<>> \/ float(F) <= 0 THEN st.speed
                                    ELSE float(F) * st.speed_factor]
       ELSE st

\* the states a tracker is built in: the record's flags and lists, the
\* factors of set_factors (extrude_factor 1 or 2, speed_factor in units of
\* 1/60)
TrackStates ==
    [base_position : {<<0, 0, 0, 0>>, <<10, 0, 20, 5>>},
     last_position : {<<30, 40, 50, 60>>},
     homing_position : {<<0, 0, 0, 0>>},
     absolute_coord : BOOLEAN, absolute_extrude : BOOLEAN,
     extrude_factor : {1, 2}, speed_factor : {1, 2}, speed : {600}]

NoTrack == [pc |-> "off", text |-> <<>>, n |-> 0,
            st |-> CHOOSE t \in TrackStates : TRUE,
            prev |-> CHOOSE t \in TrackStates : TRUE,
            out |-> NoParse]
TrackOff == trk = NoTrack
TrackStart ==
    \E text \in TrackTexts, st \in TrackStates :
        trk = [NoTrack EXCEPT !.pc = "loop", !.text = text, !.st = st, !.prev = st]

\* the replay loop: gcode_tracker.update_position(line) on the next line
TrkUpdate ==
    /\ trk.pc = "loop" /\ trk.n < Len(trk.text)
    /\ trk' = [trk EXCEPT !.n = trk.n + 1, !.prev = trk.st,
                          !.st = update_position_of_text(trk.st, trk.text[trk.n + 1])]

\* current_line == target_line: the parsed target line is returned
TrkReturn ==
    /\ trk.pc = "loop" /\ trk.n = Len(trk.text)
    /\ trk' = [trk EXCEPT !.pc = "returned",
                          !.out = parse_gcode_line(trk.text[trk.n])]

track_rest == <<store_vars, select_vars, job_vars, replay_vars, live_vars,
                cmd_vars, disp_vars, rd, orc, js, rg, flow, orch>>

NextTrack ==
    \/ (TrkUpdate /\ UNCHANGED track_rest)
    \/ (TrkReturn /\ UNCHANGED track_rest)

\* ========================================================================
\* Specifications
\* ========================================================================
\* the parts added after the dispatcher are not exercised
LateOff == SeekOff /\ OracleOff /\ JobWritesOff /\ RingOff /\ FlowOff /\ OrchOff
           /\ TrackOff

InitStore == StoreStart /\ SelectOff /\ JobOff /\ ReplayOff /\ LiveOff /\ CmdOff /\ DispOff /\ LateOff

InitSelect == StoreStart /\ SelectStart /\ JobOff /\ ReplayOff /\ LiveOff /\ CmdOff /\ DispOff /\ LateOff

InitReplay == StoreStart /\ SelectOff /\ JobOff /\ ReplayStart /\ LiveOff /\ CmdOff /\ DispOff /\ LateOff

InitLive == StoreStart /\ SelectOff /\ JobOff /\ ReplayOff /\ LiveStart /\ CmdOff /\ DispOff /\ LateOff

SpecStore == InitStore /\ [][NextStore]_vars

\* the store when the document found at start-up may be unparseable
InitDamaged ==
    /\ disk_doc \in {AbsentFile, PartialFile}
    /\ disk_tmp = AbsentFile /\ bg_queue = <<>> /\ bg_state = "idle"
    /\ bg_cur = StoreIdle /\ caller_blocked = FALSE /\ proc_alive = TRUE
    /\ killed_ever = FALSE /\ issued_kv = EmptyKV /\ handed = {} /\ n_saves = 0
    /\ SelectOff /\ JobOff /\ ReplayOff /\ LiveOff /\ CmdOff /\ DispOff /\ LateOff

SpecDamaged == InitDamaged /\ [][NextStore]_vars

SpecSelect == InitSelect /\ [][NextSelect]_vars

Init == StoreStart /\ SelectOff /\ JobStart /\ ReplayOff /\ LiveOff /\ CmdOff /\ DispOff /\ LateOff

Spec == Init /\ [][Next]_vars

SpecReplay == InitReplay /\ [][NextReplay]_vars

SpecLive == InitLive /\ [][NextLive]_vars

\* the recovery commands do not look at the job text: one job file
InitCmd == Init /\ job = JobA

SpecCmd == InitCmd /\ [][NextCmd]_vars

InitDisp == StoreStart /\ SelectOff /\ DispJobStart /\ ReplayOff /\ LiveOff /\ CmdOff /\ DispOff /\ LateOff

SpecDisp == InitDisp /\ [][NextDisp]_vars

InitSeek == StoreStart /\ SelectOff /\ JobOff /\ ReplayOff /\ LiveOff /\ CmdOff /\ DispOff
            /\ SeekStart /\ OracleOff /\ JobWritesOff /\ RingOff /\ FlowOff
            /\ OrchOff
            /\ TrackOff

SpecSeek == InitSeek /\ [][NextSeek]_vars

InitOracle == StoreStart /\ SelectOff /\ JobOff /\ ReplayOff /\ LiveOff /\ CmdOff /\ DispOff
              /\ SeekOff /\ OracleStart /\ JobWritesOff /\ RingOff /\ FlowOff
              /\ OrchOff
            /\ TrackOff

SpecOracle == InitOracle /\ [][NextOracle]_vars

InitJobWrites == StoreStart /\ SelectOff /\ JobOff /\ ReplayOff /\ LiveOff /\ CmdOff
                 /\ DispOff /\ SeekOff /\ OracleOff /\ JobWritesStart /\ RingOff
                 /\ FlowOff /\ OrchOff
            /\ TrackOff

SpecJobWrites == InitJobWrites /\ [][NextJobWrites]_vars

InitRing == StoreStart /\ SelectOff /\ JobOff /\ ReplayOff /\ LiveOff /\ CmdOff
            /\ DispOff /\ SeekOff /\ OracleOff /\ JobWritesOff /\ RingStart /\ FlowOff
            /\ OrchOff
            /\ TrackOff

SpecRing == InitRing /\ [][NextRing]_vars

InitFlow == StoreStart /\ SelectOff /\ JobOff /\ ReplayOff /\ LiveOff /\ CmdOff
            /\ DispOff /\ SeekOff /\ OracleOff /\ JobWritesOff /\ RingOff /\ FlowStart
            /\ OrchOff
            /\ TrackOff

SpecFlow == InitFlow /\ [][NextFlow]_vars

InitOrch == StoreStart /\ SelectOff /\ JobOff /\ ReplayOff /\ LiveOff /\ CmdOff
            /\ DispOff /\ SeekOff /\ OracleOff /\ JobWritesOff /\ RingOff /\ FlowOff
            /\ OrchStart
            /\ TrackOff

SpecOrch == InitOrch /\ [][NextOrch]_vars

InitTrack == StoreStart /\ SelectOff /\ JobOff /\ ReplayOff /\ LiveOff /\ CmdOff
             /\ DispOff /\ SeekOff /\ OracleOff /\ JobWritesOff /\ RingOff /\ FlowOff
             /\ OrchOff /\ TrackStart

SpecTrack == InitTrack /\ [][NextTrack]_vars

\* ========================================================================
\* Claims
\* ========================================================================

ResumeAtCommittedOrNext ==
    spliced.done =>
        spliced.file_position \in {spliced.hw_pos, spliced.hw_pos + 1}

\* C3: for every hardware line and every ring content the selector returns
\* a readable slot whose line_count is the greatest one not above the line,
\* and returns "no checkpoint" exactly when no readable slot qualifies.
SelectorCorrect ==
    find_result # NotAsked =>
        LET Q == {i \in SlotIds : ring[i].st = "ok" /\ ring[i].line_count <= line_cnt}
        IN /\ (Q = {}) <=> (find_result.index = NONE)
           /\ Q # {} =>
                /\ find_result.index \in Q
                /\ find_result.data = ring[find_result.index]
                /\ \A j \in Q : ring[j].line_count <= find_result.data.line_count

\* V = 2500 with slots at 5, 1005, 2005 selected 2005
SelectorWitness ==
    /\ line_cnt = 2500
    /\ {ring[i].line_count : i \in SlotIds} = {5, 1005, 2005}
    /\ \A i \in SlotIds : ring[i].st = "ok"
    /\ find_result.index # NONE
    /\ find_result.data.line_count = 2005

\* C4: in write order the line_count of the ring writes of one job
\* strictly increases, and the slots present hold pairwise distinct
\* line_counts.
MonotonicCheckpoints ==
    /\ Len(ring_writes) = 2 => ring_writes[1] < ring_writes[2]
    /\ \A i, j \in SlotIds :
         (i # j /\ ring[i].st = "ok" /\ ring[j].st = "ok")
            => ring[i].line_count # ring[j].line_count

\* C5: the target path never holds a partial document: a reader sees a
\* complete document that was handed to the writer, or the prior state.
AtomicWrite ==
    /\ disk_doc.st # "partial"
    /\ disk_doc.st = "whole" => disk_doc.kv \in handed

\* a kill in the middle of a write: the temporary file is partial, the
\* target is the complete prior document
AtomicWriteWitness ==
    /\ killed_ever /\ ~proc_alive
    /\ disk_tmp.st = "partial"
    /\ disk_doc.st = "whole"
    /\ ReadDoc(disk_doc).ok

\* C6: once every write has reached disk (no kill), the document holds
\* every key ever written with its most recent value.
KeysAccumulate ==
    (~killed_ever /\ bg_queue = <<>> /\ bg_state = "idle" /\ n_saves > 0) =>
        /\ disk_doc.st = "whole"
        /\ disk_doc.kv = issued_kv

\* asynchronous writes not yet on disk
UnflushedAsync ==
    Cardinality({i \in 1 .. Len(bg_queue) : ~bg_queue[i].sync})
    + (IF bg_state # "idle" /\ ~bg_cur.sync THEN 1 ELSE 0)

\* C7: at most one asynchronous write of the document is unflushed.
OneUnflushedWrite == UnflushedAsync <= 1

\* what an abort of restore_print of one of the given kinds leaves
AbortOutcome(kinds) ==
    last_abort.kind \in kinds =>
        /\ Docs = NoDocs
        /\ ~mcu.armed
        /\ main_state = "IDLE"
        /\ rs = "none"
        /\ last_abort.had_docs => (archive.made /\ AnyDoc(archive))
        /\ ~parse_power_loss_move_env.ok

ReplayResult(r) ==
    [pc |-> run[r].pc, tr |-> run[r].tr, data |-> run[r].data,
     out |-> run[r].out, current_line |-> run[r].current_line,
     cur_file_pos |-> run[r].cur_file_pos,
     last_file_pos |-> run[r].last_file_pos]
ReplayFinished == \A r \in Runs : run[r].pc \in {"returned", "none"}

LiveAtTarget == [tr |-> lv.at.tr, data |-> Positions(lv.at.data)]

\* C11: the state produced by the replay of the selected checkpoint up to
\* the committed line V equals the state the live interpreter held right
\* after executing line V, for every text of supported commands, M220 and
\* M221 included.
ReplayEqualsLive == lv.pc = "replayed" => lv.out = LiveAtTarget

\* a step in which a recovery command returned with the given response code
CmdStep(code) == cmd_status = NoCmd /\ cmd_status'.code = code

\* C12: SDCARD_PRINT_PL_RESTORE issued while the main state is not IDLE is
\* rejected with the structured error 0001-0531-0000-0005 and performs no
\* recovery step: outside IDLE no step starts restore_print or runs its
\* abort, the rejected command changes nothing (main state, documents,
\* peripherals, stream state), and the error is raised only outside IDLE.
RestoreRejectedOutsideIdle ==
    [][/\ (main_state # "IDLE" /\ rs = "none")
           => (rs' = "none" /\ (last_abort' = last_abort \/ last_abort' = NoAbort))
       /\ CmdStep(RESTORE_REJECTED)
           => /\ main_state # "IDLE"
              /\ UNCHANGED <<store_vars, select_vars, job_vars, replay_vars,
                             live_vars, disp_vars>>]_vars

\* the restore command was rejected while a print with checkpoints on disk
\* was running
RestoreRejectedWitness ==
    /\ cmd_status.code = RESTORE_REJECTED
    /\ main_state = "PRINTING" /\ rs = "none"
    /\ AnyDoc(Docs) /\ mcu.armed

\* C13: SDCARD_PRINT_PL_CLEAR_ENV issued while the main state is PRINTING is
\* rejected with the structured error 0001-0531-0000-0006 and leaves every
\* checkpoint document in place; issued in any other state it is not
\* rejected and no checkpoint document is left.
ClearEnvOnlyOutsidePrinting ==
    [][/\ CmdStep(CLEAR_REJECTED)
           => main_state = "PRINTING" /\ UNCHANGED <<ring, file_env, aux_docs>>
       /\ CmdStep("ok")
           => main_state # "PRINTING" /\ ~AnyDoc(Docs')]_vars

\* the clear command was issued outside PRINTING with checkpoint documents
\* on disk, and none is left
ClearEnvWitness ==
    /\ cmd_status.code = "ok" /\ cmd_status.had_docs
    /\ main_state = "IDLE" /\ n_crashes > 0
    /\ ~AnyDoc(Docs)

\* a step in which a line begins execution
LineBegins == wh # "exec" /\ wh' = "exec"

CancelDiscardsStream ==
    (cancel_done /\ caller = "none" /\ wh = "none")
        => /\ ~work_timer /\ ~current_file /\ file_position = 0
           /\ print_stats_state = "cancelled"
           /\ ~AnyDoc(Docs) /\ ~mcu.armed

\* a step in which the line in execution raised an instruction error with
\* one of the given action tags
ErrorStep(tags) == wh = "exec" /\ n_errors' = n_errors + 1 /\ err_log'.tag \in tags

\* C16: an instruction error whose action is 'none' does not stop the
\* stream: it is logged, file_position advances past the failing line, the
\* dispatcher stays active in its loop with nothing that keeps it from the
\* next line, and the job state remains printing.
ErrorNoneContinues ==
    [][ErrorStep({"none"})
           => /\ err_log'.logged
              /\ file_position' = exec_pos + 1
              /\ wh' = "loop" /\ work_timer' /\ current_file' /\ ~must_pause_work'
              /\ print_stats_state = "printing" /\ print_stats_state' = "printing"
              /\ UNCHANGED <<ring, file_env, aux_docs, mcu>>]_vars

\* an error with the action 'none' was swallowed and a later line has been
\* dispatched
ErrorNoneWitness ==
    /\ err_log.tag = "none" /\ n_errors > 0
    /\ wh = "exec" /\ stopped_at = NONE
    /\ print_stats_state = "printing" /\ work_timer

FatalErrorKeepsCheckpoints ==
    wh_exit.how = "error_fatal" => (wh_exit.state = "error" /\ wh_exit.docs_kept)

\* C19: an I/O failure in the dispatcher (the seek when the loop starts,
\* the read of a block, the seek after a set_file_position) ends the job
\* in the error state.
IoFailureIsFatal ==
    wh_exit.how \in {"seek_failed", "read_failed", "reseek_failed"}
        => wh_exit.state = "error"

\* C20: every return of work_handler has updated the job state and leaves
\* it complete, cancelled or error.
EveryExitTerminal ==
    wh_exit.how # "none"
        => (wh_exit.noted /\ wh_exit.state \in {"complete", "cancelled", "error"})

\* some checkpoint document that exists before the step is gone after it
DocDeleted ==
    \/ file_env.exists /\ ~file_env'.exists
    \/ aux_docs /\ ~aux_docs'
    \/ \E i \in SlotIds : ring[i].st # "absent" /\ ring'[i].st = "absent"

\* a job is in progress: streaming or paused
JobInProgress == print_stats_state \in {"printing", "paused"}

\* C22: a step that deletes a checkpoint document deletes all of them, and
\* no step deletes one while a job is in progress (streaming or paused)
\* before it and after it: deletion belongs to the end of a job (reset,
\* cancel, completion) or to the explicit clear.
DeletedOnlyWholesale ==
    [][DocDeleted => /\ ~AnyDoc(Docs')
                     /\ ~(JobInProgress /\ JobInProgress')]_vars

\* C23: when the handler of a dispatched line has moved the target offset
\* (set_file_position) and returned, the dispatcher sets file_position to
\* that offset, moves the file pointer there and holds no buffered line and
\* no trailing fragment; the line dispatched next is the text that begins
\* at that offset.
SeekDiscardsBuffer ==
    [][/\ (rd.pc = "exec" /\ rd'.ret = "returned"
              /\ rd.next_file_position # rd.local_next)
           => /\ rd'.file_position = rd.next_file_position
              /\ rd'.os_pos = rd.next_file_position
              /\ rd'.buf = <<>> /\ rd'.partial = <<>>
       /\ (rd.sought # NONE /\ rd'.pc = "exec")
           => /\ rd'.line = LineAt(rd.sought)
              /\ rd.file_position = rd.sought]_vars

\* a line was dispatched after a seek that dropped buffered text
SeekWitness ==
    /\ rd.pc = "exec" /\ rd.after_seek # NONE /\ rd.dropped
    /\ rd.line = LineAt(rd.after_seek) /\ rd.line # <<>>

\* the records the oracle counts: held by a peripheral whose flag equals
\* the env_flag of the file-identity document, and reporting a line
Counted ==
    {k \in {"stepper_x", "stepper_z"} :
        /\ orc.entries[k].owner # 0
        /\ orc.file_flag # NONE
        /\ orc.flags[orc.entries[k].owner] = orc.file_flag
        /\ orc.entries[k].line # NONE}

\* C24: the oracle's valid_line is the largest line over the counted
\* records, NONE when there is none; its Z tick value is the position of
\* the 'stepper_z' record when that record is counted, NONE otherwise.
OracleMaxLine ==
    orc.pc = "read"
        => /\ IF Counted = {} THEN orc.out.valid_line = NONE
              ELSE /\ \E k \in Counted : orc.out.valid_line = orc.entries[k].line
                   /\ \A k \in Counted : orc.out.valid_line >= orc.entries[k].line
           /\ orc.out.stepper_z_pos = IF "stepper_z" \in Counted
                                      THEN orc.entries["stepper_z"].position
                                      ELSE NONE

\* two peripherals with the current flag reported different lines, the
\* smaller one on the Z axis, and the oracle took the larger
OracleWitness ==
    /\ orc.pc = "read" /\ Counted = {"stepper_x", "stepper_z"}
    /\ orc.entries["stepper_x"].owner # orc.entries["stepper_z"].owner
    /\ orc.entries["stepper_z"].line < orc.entries["stepper_x"].line
    /\ orc.out.valid_line = orc.entries["stepper_x"].line
    /\ orc.out.stepper_z_pos = 7

\* C26: the checkpoint write of the job start is synchronous: when the
\* dispatcher executes the instruction it was written before, the document
\* on disk holds what was written.
JobStartWriteDurable == js.ran => js.durable

\* the step of restore_print that hands the dispatcher its position
SpliceStep == rs = "flagged" /\ rs' = "none" /\ ~work_timer /\ work_timer'

\* C27: at the splice, when line V committed by the hardware is a motion
\* command the dispatcher gets the offset just after line V and lines = V;
\* otherwise the offset where line V starts and lines = V - 1.
SpliceSkipsMotionLine ==
    [][SpliceStep =>
         LET V == flash.line
             start == flash.pos
         IN IF job[start + 1] \in GENERIC_MOVE_GCODE
            THEN file_position' = start + 1 /\ lines' = V
            ELSE file_position' = start /\ lines' = V - 1]_vars

\* the line count of the newest move checkpoint written, 0 when none
LastWriteLine == IF Len(ring_writes) = 0 THEN 0 ELSE ring_writes[Len(ring_writes)]

\* C28: with X, Y and Z homed, once the grace period is over every window
\* of pl_save_line_interval consecutive dispatched lines holds a move
\* checkpoint write (stated for a first run of a job, whose first line
\* homes all axes, so that every line of the window ran homed).
CheckpointEveryInterval ==
    ( /\ wh = "loop" /\ homed /\ n_crashes = 0 /\ n_errors = 0
      /\ job[1] = "G28"
      /\ lines - pl_save_line_interval + 1 >= pl_start_save_line )
    => LastWriteLine > lines - pl_save_line_interval

\* C29: a move-checkpoint write of the dispatcher goes to slot
\* current_file_index, which advances by one modulo max_file_count: the
\* index stays in [0, max_file_count), only the files of these slots exist,
\* and after a write the slot file holds exactly the record written, no
\* field of the record it held before.
RingWriteReplacesSlot ==
    /\ rg.current_file_index \in SlotIds
    /\ \A i \in RingFiles : rg.files[i] # NoFile => i \in SlotIds
    /\ rg.last.index # NONE =>
         /\ rg.files[rg.last.index] = rg.last.data
         /\ rg.current_file_index = (rg.last.index + 1) % max_file_count

\* the ring has wrapped: slot 0, which held the record of an earlier lap, is
\* written again with another offset, line count and Z reference
RingWriteWitness ==
    /\ rg.last.index # NONE /\ rg.last.before # NoFile
    /\ rg.last.before.file_pos # rg.last.data.file_pos
    /\ rg.last.before.line_count # rg.last.data.line_count
    /\ rg.last.before.homing_stepper_z_info # rg.last.data.homing_stepper_z_info
    /\ rg.files[rg.last.index] = rg.last.data
    /\ rg.last.index = 0 /\ rg.current_file_index = 1

\* C30: replaying M221 from factor f to f' leaves last_E as it was and sets
\* the E base so that the logical extruded length is the same before and
\* after: (last_E - new_base_E) / f' = (last_E - old_base_E) / f.
FlowChangeKeepsLength ==
    flow.cmd = "M221" =>
      /\ flow.exact
      /\ flow.last = flow.before.last
      /\ Over(flow.last - flow.base, flow.extrude_factor)
           = Over(flow.before.last - flow.before.base, flow.before.extrude_factor)
      /\ (flow.last - flow.base) * flow.before.extrude_factor
           = (flow.before.last - flow.before.base) * flow.extrude_factor

\* base = 10 and last = 20 under factor 1.0, M221 S50 replayed: the base is
\* 15 and the logical length is 10 as before
FlowChangeWitness ==
    /\ flow.cmd = "M221"
    /\ flow.before = [base |-> 10, last |-> 20, extrude_factor |-> 100]
    /\ flow.extrude_factor = 50 /\ flow.last = 20 /\ flow.base = 15
    /\ Over(flow.last - flow.base, flow.extrude_factor) = 10

\* C21: restore_print changes toolhead position, gcode_move fields and
\* checkpoint documents only while work_timer is None: no statement of it
\* touches any of them while the dispatcher's timer exists.
RestoreTouchesOnlyWhenStopped == ~orch.busy_touch

\* C25: the recovery states follow one another in the order Validating,
\* Locating, Preflight, Homing, PositionRecovery, Reheat, Purge, Reposition,
\* Splice, Running: no statement of an earlier state runs after a statement
\* of a later one.
RecoveryStepsInOrder ==
    \A i \in 1 .. Len(orch.log) : \A j \in i .. Len(orch.log) :
        PhaseRank(orch.log[i]) <= PhaseRank(orch.log[j])

\* C40: with pl_switch false the dispatcher writes no checkpoint document
\* and sends no arm command, whatever the lines it dispatches, lines that
\* begin with G28 included.
NothingWrittenWhenSwitchedOff ==
    ~rg.pl_switch =>
        /\ ~rg.armed /\ ~rg.file_env
        /\ rg.last.index = NONE
        /\ \A i \in RingFiles : rg.files[i] = NoFile

\* the lines of the job file: the text before each terminator and, when
\* something follows the last terminator, that text as well
LinesOfJob ==
    LET pieces == SplitNL(JobBytes, <<>>)
    IN IF pieces[Len(pieces)] = <<>> THEN SubSeq(pieces, 1, Len(pieces) - 1)
       ELSE pieces

\* C39: a run without pause, error or seek has dispatched every line of the
\* job file once and in file order when the end of the file is reached, a
\* last line without terminator included.
EveryLineDispatchedOnce ==
    (rd.pc = "done" /\ rd.clean) => rd.sent = LinesOfJob

\* a line is dispatched after another line of the same run of the job
NextDispatch ==
    /\ wh = "loop" /\ wh' = "exec"
    /\ lines > 0 /\ exec_pos # NONE /\ n_crashes = 0

\* C35: line counter and byte offset advance together: between the offsets
\* of two lines dispatched one after the other lie as many line terminators
\* as their line numbers differ, also when the stream stopped at a pausable
\* error and was resumed in between.
LinesAndOffsetInLockstep ==
    [][NextDispatch => lines' - lines = exec_pos' - exec_pos]_vars

\* C36: in every move-checkpoint slot on disk file_pos is the offset at
\* which the line numbered line_count begins and the record is the one of
\* that line, whoever wrote the slot: the dispatcher,
\* force_refresh_move_env_extruder or restore_print (stated for runs in
\* which no instruction raised an error).
SlotOffsetIsOfItsLine ==
    n_errors = 0 =>
        \A i \in SlotIds :
            ring[i].st = "ok" =>
                /\ ring[i].line_count \in 1 .. FileLen
                /\ ring[i].file_pos = ring[i].line_count - 1
                /\ ring[i].line = job[ring[i].line_count]


\* C37: replay does not modify the move-checkpoint record it was given:
\* when parse_power_loss_move_env has returned, the last_position and the
\* homing_position lists of the record (the lists the tracker was built on
\* and never rebinds) equal the values read from disk.
ReplayLeavesRecordUnmodified ==
    \A r \in Runs :
        run[r].pc = "returned"
            => /\ run[r].data.last_position = replay_in.rec.last_position
               /\ run[r].data.homing_position = replay_in.rec.homing_position


\* the committed line V, and the interpreter after restore_print installed
\* the tracker's base_position and homing_position and the dispatcher
\* executed line V again
TargetLine == lv.text[lv.target]
ReexecutedTarget == LiveExecLine([tr |-> lv.out.tr, data |-> lv.out.data], TargetLine)

\* C38: when the committed line V is not a motion command and is executed
\* again by the dispatcher after recovery, the offsets installed by
\* restore_print followed by the live execution of V equal the offsets
\* after a single execution of V.
TargetLineAppliedOnce ==
    (lv.pc = "replayed" /\ TargetLine.cmd \notin GENERIC_MOVE_GCODE)
        => /\ ReexecutedTarget.data.base_position.x = lv.at.data.base_position.x
           /\ ReexecutedTarget.data.homing_position = lv.at.data.homing_position


\* where a command occurs among the head commands of the recovery
Occurs(cmd) == {i \in 1 .. Len(orch.moves) : orch.moves[i] = cmd}
Before(a, i) == \E j \in Occurs(a) : j < i

\* C33: the head is moved to the reconstructed position by G0 Y, then G0 X,
\* then G0 Z; the Z move is left out exactly when the target line is G28
\* naming Z or naming none of X, Y, Z; the moves come after G28 X Y and
\* toolhead.set_position and before do_resume restarts the dispatcher.
RepositionOrder ==
    /\ \A i \in Occurs("G0 Y") :
          /\ Before("G28 X Y", i) /\ Before("set_position Z", i)
          /\ i + 1 <= Len(orch.moves) /\ orch.moves[i + 1] = "G0 X"
          /\ (i + 2 <= Len(orch.moves) /\ orch.moves[i + 2] = "G0 Z")
                <=> ~(orch.target.cmd = "G28"
                      /\ ("Z" \in orch.target.params
                          \/ orch.target.params \cap {"X", "Y", "Z"} = {}))
    /\ \A i \in Occurs("G0 X") \cup Occurs("G0 Z") : Before("G0 Y", i)
    /\ \A i \in Occurs("do_resume") :
          /\ i = Len(orch.moves)
          /\ Before("G0 Y", i)

\* a recovery whose target line is a G28 without axis restarted the
\* dispatcher after the Y and X moves, without a Z move
RepositionWitness ==
    /\ orch.outcome = "running"
    /\ orch.target = [cmd |-> "G28", params |-> {}]
    /\ orch.moves = <<"G28 X Y", "set_position Z", "G0 Y", "G0 X", "do_resume">>


\* C34: an unparseable checkpoint document is treated as absent: readers
\* return what they return for a missing file, and a later write to the
\* document proceeds as if no file existed, so that once the writer has
\* flushed every write of a process that was never killed the document
\* on disk is a whole one.
UnparseableTreatedAsAbsent ==
    /\ ReadDoc(PartialFile) = ReadDoc(AbsentFile)
    /\ (n_saves > 0 /\ bg_queue = <<>> /\ bg_state = "idle" /\ ~killed_ever)
          => disk_doc.st = "whole"


\* the line the tracker was last updated with, its command word, and
\* whether a word of it gives a value to a key
LastLine == trk.text[trk.n]
LastCmd == LastLine[1]
Names(key) ==
    \E i \in 2 .. Len(LastLine) : LastLine[i][1] = key /\ Len(LastLine[i]) > 1
GivenValue(key) ==
    float(Tail(LastLine[CHOOSE i \in 2 .. Len(LastLine) : LastLine[i][1] = key]))
Axis == <<"X", "Y", "Z", "E">>

\* C31: replaying G92 leaves last_position unchanged; without an axis
\* argument every base offset becomes the current last_position; with
\* explicit axis values last - base of each named axis equals the given
\* value (times the flow factor for E) and the offsets of the other axes
\* are unchanged.
PositionResetRedefinesBase ==
    (trk.n >= 1 /\ LastCmd = <<"G","9","2">>) =>
        /\ trk.st.last_position = trk.prev.last_position
        /\ IF \A i \in 1 .. 4 : ~Names(Axis[i])
           THEN trk.st.base_position = trk.prev.last_position
           ELSE \A i \in 1 .. 4 :
                  IF Names(Axis[i])
                  THEN trk.st.last_position[i] - trk.st.base_position[i]
                         = GivenValue(Axis[i])
                           * (IF i = 4 THEN trk.prev.extrude_factor ELSE 1)
                  ELSE trk.st.base_position[i] = trk.prev.base_position[i]

\* "G92 E1" was replayed with a flow factor of 2 from E 6.0: the base
\* offset of E moved to 4.0
PositionResetWitness ==
    /\ trk.n >= 1
    /\ LastLine = << <<"G","9","2">>, <<"E","1">> >>
    /\ trk.prev.extrude_factor = 2
    /\ trk.prev.base_position = <<10, 0, 20, 5>>
    /\ trk.st.base_position = <<10, 0, 20, 40>>
    /\ trk.st.last_position = <<30, 40, 50, 60>>

\* "G1 X10 Y20 E1.5 F1200"
ScenarioALine ==
    << <<"G","1">>, <<"X","1","0">>, <<"Y","2","0">>, <<"E","1",".","5">>,
       <<"F","1","2","0","0">> >>

\* C32: replaying a linear or arc motion line changes last_position only
\* on the axes the line names and the speed only if it names F; base
\* offsets, mode flags and factors are unchanged.  With base offsets zero
\* in absolute mode, "G1 X10 Y20 E1.5 F1200" gives X 10, Y 20, Z unchanged,
\* the speed of F1200, and the parsed target G1 with X '10', Y '20',
\* E '1.5', F '1200'.
MotionUpdatesNamedAxesOnly ==
    (trk.n >= 1 /\ LastCmd \in {<<"G","0">>, <<"G","1">>, <<"G","2">>, <<"G","3">>}) =>
        /\ \A i \in 1 .. 4 :
              ~Names(Axis[i]) => trk.st.last_position[i] = trk.prev.last_position[i]
        /\ ~Names("F") => trk.st.speed = trk.prev.speed
        /\ [trk.st EXCEPT !.last_position = trk.prev.last_position,
                          !.speed = trk.prev.speed] = trk.prev
        /\ (LastLine = ScenarioALine /\ trk.prev.absolute_coord
            /\ trk.prev.base_position = <<0, 0, 0, 0>>) =>
              /\ trk.st.last_position[1] = 100
              /\ trk.st.last_position[2] = 200
              /\ trk.st.last_position[3] = trk.prev.last_position[3]
              /\ trk.st.speed = 12000 * trk.prev.speed_factor
        /\ (LastLine = ScenarioALine /\ trk.pc = "returned") =>
              trk.out = [cmd |-> <<"G","1">>,
                         params |-> (<<"X">> :> <<"1","0">>)
                                    @@ (<<"Y">> :> <<"2","0">>)
                                    @@ (<<"E">> :> <<"1",".","5">>)
                                    @@ (<<"F">> :> <<"1","2","0","0">>)]

\* the replay returned at "G1 X10 Y20 E1.5 F1200" from zero base offsets in
\* absolute mode
MotionWitness ==
    /\ trk.pc = "returned" /\ LastLine = ScenarioALine
    /\ trk.prev.absolute_coord /\ trk.prev.absolute_extrude
    /\ trk.prev.base_position = <<0, 0, 0, 0>>
    /\ trk.prev.speed_factor = 1
    /\ trk.st.last_position = <<100, 200, 50, 15>>
    /\ trk.st.speed = 12000
    /\ trk.out.cmd = <<"G","1">>

====
